---- MODULE Spec2Model ----
(***************************************************************************)
(* Geocode response cache of gmmerchandising-backend: the RedisService     *)
(* store abstraction, generateCacheKey, the cacheGeocodingResponse         *)
(* middleware and the /reverse and /forward route handlers behind it.      *)
(*                                                                         *)
(* Numbers: every coordinate is an integer count of 10^-5 degrees, so      *)
(* 40.71276 is 4071276.  Times are integer milliseconds.  JavaScript       *)
(* objects are records; a field that is absent in the object is absent     *)
(* from the record's DOMAIN.                                               *)
(***************************************************************************)
EXTENDS Integers, FiniteSets, Sequences, TLC

(* ------------------------------ bounds --------------------------------- *)
\* number of HTTP requests a behaviour serves
MaxReq == 2
\* number of clock ticks a behaviour takes
MaxTicks == 1

(* --------------------------- sample inputs ----------------------------- *)
Req == 1..MaxReq
\* the calls of runDiagnostic a behaviour makes
Runs == {1, 2}
Users == {"u1", "u2"}
\* raw request bodies of POST /reverse: 40.71276,-74.00594, which becomes
\* 40.713,-74.006 in req.coordinates and 40.71,-74.01 in the cache key
RawCoordinates == { [latitude |-> [number |-> 4071276], longitude |-> [number |-> -7400594]] }
\* raw request bodies of POST /forward
RawAddresses == { [address |-> [string |-> " Av Paulista 1000 "]] }
\* request headers with a token that verifies to a user
ValidHeaders == { [authorization |-> [bearer |-> uid]] : uid \in Users }
\* what the geocoding provider can answer to one call
ProviderOutcomes == {"ok", "no_results", "api_error", "network_error"}

(* ----------------------------- constants ------------------------------- *)
\* the TTL redis reports for a key stored without expiration, and for a
\* key it does not hold
TtlNoExpiration == -1
TtlNoKey == -2

\* JavaScript null, and the completion of a call that threw
NULL == [null |-> TRUE]
THROWN == [thrown |-> TRUE]

VARIABLES
    isUpstash,   \* RedisService.isUpstash (NODE_ENV === 'production')
    client,      \* RedisService.client: "null" or "live"
    isEnabled,   \* RedisService.isEnabled
    initPc,      \* position of RedisService.initializeClient
    store,       \* the backend keyspace: key -> [raw, expireAt]
    now,         \* Date.now()
    req,         \* per request: the req/res objects and the request's position
    hist,        \* per request: what happened to it (observation only)
    servedKeys,  \* keys whose miss was computed and answered 200 (observation only)
    users,       \* the users that have sent a request (observation only)
    keys,        \* calls of generateCacheKey: their arguments and results
    lastOp,      \* the last direct call of a RedisService method and its result
    diag,        \* CacheDiagnostic.runDiagnostic: its position and its results
    warm         \* PerpetualCacheManager.warmupCache: its position and its results

vars == <<isUpstash, client, isEnabled, initPc, store, now, req, hist, servedKeys, users,
          keys, lastOp, diag, warm>>

(* ------------------------- coordinateUtils ----------------------------- *)
\* 10^-decimalPlaces degrees in the 10^-5 unit
Multiplier(decimalPlaces) ==
    CASE decimalPlaces = 2 -> 1000
      [] decimalPlaces = 3 -> 100
      [] OTHER -> 1

\* Math.round(coordinate * multiplier) / multiplier; Math.round(x) is
\* floor(x + 1/2).  The result keeps the 10^-5 unit.
roundCoordinate(coordinate, decimalPlaces) ==
    LET unit == Multiplier(decimalPlaces)
    IN  ((2 * coordinate + unit) \div (2 * unit)) * unit

roundCoordinates(latitude, longitude, decimalPlaces) ==
    [latitude  |-> roundCoordinate(latitude, decimalPlaces),
     longitude |-> roundCoordinate(longitude, decimalPlaces)]

(* ------------------------------- JSON ---------------------------------- *)
Has(obj, f) == f \in DOMAIN obj
\* the text JSON.stringify produces for a value, and JSON.parse of a text
\* (THROWN for a text that is not JSON)
JSONstringify(value) == [text |-> "json", value |-> value]
JSONparse(s) == IF Has(s, "text") THEN s.value ELSE THROWN

\* JavaScript values: an object is the record of its fields; a number, a
\* boolean, a string that is not JSON text and an array are records with the
\* one field number, boolean, string, array; a string that is JSON text is
\* JSONstringify of the value it denotes
TypeOf(v) ==
    IF DOMAIN v = {"string"} \/ DOMAIN v = {"text", "value"} THEN "string"
    ELSE IF DOMAIN v = {"number"} THEN "number"
    ELSE IF DOMAIN v = {"boolean"} THEN "boolean"
    ELSE "object"
\* if (v)
IsTruthy(v) ==
    /\ v # NULL
    /\ DOMAIN v = {"number"} => v.number # 0
    /\ DOMAIN v = {"boolean"} => v.boolean
    /\ DOMAIN v = {"string"} => v.string # ""

\* obj.f, undefined read as null
Field(obj, f) == IF Has(obj, f) THEN obj[f] ELSE NULL
\* parseFloat of a number, or of a string that does not start with one
NaN == [nan |-> TRUE]
parseFloat(v) == IF TypeOf(v) = "number" THEN v ELSE NaN

\* { ...a, ...b }: the fields of b override those of a
Spread(a, b) == b @@ a
\* delete obj.f for every f in fields
Delete(obj, fields) == [f \in (DOMAIN obj) \ fields |-> obj[f]]
\* obj.f where a missing field reads as undefined (falsy)
Truthy(obj, f) == Has(obj, f) /\ obj[f] = TRUE

(* --------------------------- RedisService ------------------------------ *)
isAvailable == isEnabled /\ client # "null"

\* an entry the backend still holds at the current time
Holds(key) ==
    /\ key \in DOMAIN store
    /\ (store[key].expireAt = TtlNoExpiration \/ now < store[key].expireAt)

\* client.get(key): the Upstash REST client hands back what the stored
\* string parses to (the string itself when it is not JSON), the socket
\* client the stored string; a missing key reads as null
ClientGet(key) ==
    IF ~Holds(key) THEN NULL
    ELSE IF isUpstash /\ JSONparse(store[key].raw) # THROWN
         THEN JSONparse(store[key].raw)
         ELSE store[key].raw

\* variant of RedisGet: no try/catch around client.get
RedisGetNoCatch(key, clientThrows) ==
    IF ~isEnabled \/ client = "null" THEN NULL
    ELSE IF clientThrows THEN THROWN
    ELSE LET data == ClientGet(key) IN
         IF ~IsTruthy(data) THEN NULL
         ELSE IF TypeOf(data) = "string" THEN JSONparse(data)
         ELSE IF TypeOf(data) = "object" THEN data
         ELSE NULL

\* RedisService.get after ensureInitialized; clientThrows: client.get rejects
RedisGet(key, clientThrows) ==
    IF ~isEnabled \/ client = "null" THEN NULL
    ELSE IF clientThrows THEN NULL
    ELSE LET data == ClientGet(key) IN
         IF ~IsTruthy(data) THEN NULL
         ELSE IF TypeOf(data) = "string"
              THEN (IF JSONparse(data) = THROWN THEN NULL ELSE JSONparse(data))
         ELSE IF TypeOf(data) = "object" THEN data
         ELSE NULL

\* variant of RedisSet: the write is SET NX, the first entry of a key stays
RedisSetIfAbsent(key, data, ttl, clientThrows) ==
    IF ~isEnabled \/ client = "null" THEN [returns |-> FALSE, store |-> store]
    ELSE IF clientThrows THEN [returns |-> FALSE, store |-> store]
    ELSE IF Holds(key) THEN [returns |-> TRUE, store |-> store]
    ELSE [returns |-> TRUE,
          store   |-> [k \in (DOMAIN store) \cup {key} |->
                         IF k = key
                         THEN [raw |-> JSONstringify(data),
                               expireAt |-> IF ttl = 0 THEN TtlNoExpiration
                                            ELSE now + ttl * 1000]
                         ELSE store[k]]]

\* variant of RedisSet: the write is SET KEEPTTL, an entry that is replaced
\* hands its deadline on
RedisSetKeepTtl(key, data, ttl, clientThrows) ==
    IF ~isEnabled \/ client = "null" THEN [returns |-> FALSE, store |-> store]
    ELSE IF clientThrows THEN [returns |-> FALSE, store |-> store]
    ELSE LET serializedData == IF TypeOf(data) = "string" THEN data ELSE JSONstringify(data)
             expireAt == IF Holds(key) THEN store[key].expireAt
                         ELSE IF ttl = 0 THEN TtlNoExpiration ELSE now + ttl * 1000
         IN  [returns |-> TRUE,
              store   |-> [k \in (DOMAIN store) \cup {key} |->
                             IF k = key
                             THEN [raw |-> serializedData, expireAt |-> expireAt]
                             ELSE store[k]]]

\* RedisService.set after ensureInitialized: the value it returns and the
\* keyspace it leaves
RedisSet(key, data, ttl, clientThrows) ==
    IF ~isEnabled \/ client = "null" THEN [returns |-> FALSE, store |-> store]
    ELSE IF clientThrows THEN [returns |-> FALSE, store |-> store]
    ELSE LET serializedData == IF TypeOf(data) = "string" THEN data ELSE JSONstringify(data)
             expireAt == IF ttl = 0 THEN TtlNoExpiration ELSE now + ttl * 1000
         IN  [returns |-> TRUE,
              store   |-> [k \in (DOMAIN store) \cup {key} |->
                             IF k = key
                             THEN [raw |-> serializedData, expireAt |-> expireAt]
                             ELSE store[k]]]

\* variant of RedisDel: `return true` once client.del has resolved, whatever
\* number it answered
RedisDelReportsCall(key, clientThrows) ==
    IF ~isEnabled \/ client = "null" THEN [returns |-> FALSE, store |-> store]
    ELSE IF clientThrows THEN [returns |-> FALSE, store |-> store]
    ELSE [returns |-> TRUE,
          store   |-> [k \in (DOMAIN store) \ {key} |-> store[k]]]

\* RedisService.del after ensureInitialized: client.del answers the number
\* of keys it removed
RedisDel(key, clientThrows) ==
    IF ~isEnabled \/ client = "null" THEN [returns |-> FALSE, store |-> store]
    ELSE IF clientThrows THEN [returns |-> FALSE, store |-> store]
    ELSE [returns |-> Holds(key),
          store   |-> [k \in (DOMAIN store) \ {key} |-> store[k]]]

\* RedisService.ping after ensureInitialized: the client answers 'PONG'
RedisPing(clientThrows) ==
    IF ~isEnabled \/ client = "null" THEN FALSE
    ELSE IF clientThrows THEN FALSE
    ELSE TRUE

\* client.ttl(key): seconds to the deadline as redis rounds them
ClientTtl(key) ==
    IF ~Holds(key) THEN TtlNoKey
    ELSE IF store[key].expireAt = TtlNoExpiration THEN TtlNoExpiration
    ELSE (store[key].expireAt - now + 500) \div 1000

\* RedisService.ttl after ensureInitialized
RedisTtl(key, clientThrows) ==
    IF ~isEnabled \/ client = "null" THEN TtlNoKey
    ELSE IF clientThrows THEN TtlNoKey
    ELSE ClientTtl(key)

\* variant of RedisPersist: `return true` once client.persist has resolved,
\* whatever it answered
RedisPersistReportsCall(key, clientThrows) ==
    IF ~isEnabled \/ client = "null" THEN [returns |-> FALSE, store |-> store]
    ELSE IF clientThrows THEN [returns |-> FALSE, store |-> store]
    ELSE IF Holds(key) /\ store[key].expireAt # TtlNoExpiration
         THEN [returns |-> TRUE,
               store   |-> [store EXCEPT ![key].expireAt = TtlNoExpiration]]
         ELSE [returns |-> TRUE, store |-> store]

\* RedisService.persist after ensureInitialized: client.persist answers 1
\* when it removed a deadline
RedisPersist(key, clientThrows) ==
    IF ~isEnabled \/ client = "null" THEN [returns |-> FALSE, store |-> store]
    ELSE IF clientThrows THEN [returns |-> FALSE, store |-> store]
    ELSE IF Holds(key) /\ store[key].expireAt # TtlNoExpiration
         THEN [returns |-> TRUE,
               store   |-> [store EXCEPT ![key].expireAt = TtlNoExpiration]]
         ELSE [returns |-> FALSE, store |-> store]

\* variant of getCacheInfo: isPerpetual compares with the ttl argument of
\* set, 0, instead of the reply of redis, -1
getCacheInfoTtlZero(key, existsThrows, ttlThrows, getThrows) ==
    IF ~isEnabled \/ client = "null" THEN NULL
    ELSE IF existsThrows THEN NULL
    ELSE IF ~Holds(key) THEN NULL
    ELSE LET ttl  == RedisTtl(key, ttlThrows)
             data == RedisGet(key, getThrows)
         IN  [key |-> key, exists |-> TRUE, ttl |-> ttl,
              isPerpetual |-> ttl = 0,
              hasExpiration |-> ttl > 0,
              cacheMetadata |-> IF data # NULL /\ Has(data, "cacheMetadata")
                                THEN data.cacheMetadata ELSE NULL]

\* RedisService.getCacheInfo after ensureInitialized; each flag says that
\* the client call of that step rejects
getCacheInfo(key, existsThrows, ttlThrows, getThrows) ==
    IF ~isEnabled \/ client = "null" THEN NULL
    ELSE IF existsThrows THEN NULL
    ELSE IF ~Holds(key) THEN NULL
    ELSE LET ttl  == RedisTtl(key, ttlThrows)
             data == RedisGet(key, getThrows)
         IN  [key |-> key, exists |-> TRUE, ttl |-> ttl,
              isPerpetual |-> ttl = TtlNoExpiration,
              hasExpiration |-> ttl > 0,
              cacheMetadata |-> IF data # NULL /\ Has(data, "cacheMetadata")
                                THEN data.cacheMetadata ELSE NULL]

(* ----------------------------- cache.js -------------------------------- *)
\* md5 over JSON.stringify(data), taken as injective: the hash is the data
Hash(data) == [md5 |-> data]

\* variant of generateCacheKey: the data is hashed as it came, unrounded
generateCacheKeyUnrounded(prefix, data, userId) ==
    IF userId # ""
    THEN <<[s |-> prefix], [s |-> "user"], [s |-> userId], Hash(data)>>
    ELSE <<[s |-> prefix], Hash(data)>>

\* variant of generateCacheKey: the user id is left out of the key
generateCacheKeyNoUser(prefix, data, userId) ==
    LET rounded == IF Has(data, "latitude") /\ Has(data, "longitude")
                   THEN Spread(data, roundCoordinates(data.latitude, data.longitude, 2))
                   ELSE data
    IN  <<[s |-> prefix], Hash(rounded)>>

\* `${prefix}:user:${userId}:${hash}` or `${prefix}:${hash}`; a null userId
\* is the empty string
generateCacheKey(prefix, data, userId) ==
    LET rounded == IF Has(data, "latitude") /\ Has(data, "longitude")
                   THEN Spread(data, roundCoordinates(data.latitude, data.longitude, 2))
                   ELSE data
        hash == Hash(rounded)
    IN  IF userId # ""
        THEN <<[s |-> prefix], [s |-> "user"], [s |-> userId], hash>>
        ELSE <<[s |-> prefix], hash>>

\* the four arguments each route passes to cacheGeocodingResponse
RouteConfig(route) ==
    IF route = "reverse"
    THEN [cachePrefix |-> "reverse-geocode", ttl |-> 0, userSpecific |-> FALSE, perpetual |-> TRUE]
    ELSE [cachePrefix |-> "geocode", ttl |-> 0, userSpecific |-> FALSE, perpetual |-> TRUE]

\* the cacheData the middleware hashes for a request
CacheData(cachePrefix, rq) ==
    IF cachePrefix = "reverse-geocode"
    THEN [latitude |-> rq.coordinates.latitude, longitude |-> rq.coordinates.longitude]
    ELSE [address |-> rq.address]

\* const userId = userSpecific && req.user ? req.user.uid : null
CacheUserId(cfg, rq) ==
    IF cfg.userSpecific /\ rq.user # NULL THEN rq.user.uid ELSE ""

RequestCacheKey(cfg, rq) ==
    generateCacheKey(cfg.cachePrefix, CacheData(cfg.cachePrefix, rq), CacheUserId(cfg, rq))

\* variant of SkipCache: the availability check is left out
SkipCacheNever == FALSE

\* if (!redisService.isAvailable()) return next()
SkipCache == ~isAvailable

\* the middleware up to its first await: next() at once, or the key is
\* derived and redisService.get is called
cacheGeocodingResponse(rq, cfg) ==
    IF SkipCache THEN [rq EXCEPT !.pc = "handler"]
    ELSE IF cfg.cachePrefix \notin {"reverse-geocode", "geocode"}
    THEN [rq EXCEPT !.pc = "handler"]
    ELSE [rq EXCEPT !.pc = "get", !.cacheKey = RequestCacheKey(cfg, rq)]

\* variant of IsHit: a hit also asks for the cached flag, which is never stored
IsHitCachedFlag(cachedResponse) ==
    cachedResponse # NULL /\ cachedResponse # THROWN /\ Truthy(cachedResponse, "cached")

\* if (cachedResponse && typeof cachedResponse === 'object')
IsHit(cachedResponse) == cachedResponse # NULL /\ cachedResponse # THROWN

\* variant of HitBody: spreads cachedResponse.data, as cacheResponse does
HitBodySpreadData(cachedResponse) ==
    Spread(cachedResponse.data, [cached |-> TRUE, cacheTimestamp |-> now])

\* the body res.status(200).json(...) sends on a hit
HitBody(cachedResponse) ==
    LET hasMeta == Has(cachedResponse, "cacheMetadata")
        cacheAge == IF hasMeta THEN now - cachedResponse.cacheMetadata.cachedAt ELSE 0
        isPerpetual == hasMeta /\ Truthy(cachedResponse.cacheMetadata, "perpetual")
        served == [isPerpetual |-> isPerpetual,
                   cacheAge    |-> cacheAge \div 1000,
                   servedAt    |-> now]
    IN  Spread(cachedResponse,
               [cached         |-> TRUE,
                cacheTimestamp |-> now,
                cacheMetadata  |-> IF hasMeta
                                   THEN Spread(cachedResponse.cacheMetadata, served)
                                   ELSE served])

\* variant of MwOnHit: the `return` is missing, so the middleware goes on to
\* override res.json and call next()
MwOnHitNoReturn(rq, cachedResponse) ==
    [rq EXCEPT !.pc = "handler", !.jsonOverridden = TRUE,
               !.res = [statusCode |-> 200, body |-> HitBody(cachedResponse)]]

\* variant of MwOnHit: res.json is overridden before the hit test, so the
\* body served on a hit is written back over the entry
MwOnHitRefresh(rq, cachedResponse) ==
    [rq EXCEPT !.pc = "done",
               !.pendingSet = Append(rq.pendingSet,
                                     [key |-> rq.cacheKey, data |-> HitBody(cachedResponse),
                                      ttl |-> 0]),
               !.res = [statusCode |-> 200, body |-> HitBody(cachedResponse)]]

\* the request after the middleware found cachedResponse: it answers and
\* returns without calling next()
MwOnHit(rq, cachedResponse) ==
    [rq EXCEPT !.pc = "done",
               !.res = [statusCode |-> 200, body |-> HitBody(cachedResponse)]]

\* variant of MwOnMiss: res.json is overridden and the middleware returns
\* without calling next()
MwOnMissNoNext(rq) == [rq EXCEPT !.pc = "done", !.jsonOverridden = TRUE]

\* the request after a miss: res.json is overridden, then next()
MwOnMiss(rq) == [rq EXCEPT !.pc = "handler", !.jsonOverridden = TRUE]

\* the request after the catch block of the middleware: next() alone
MwOnError(rq) == [rq EXCEPT !.pc = "handler"]

\* variant of ShouldCache: the test cacheResponse uses without its status
\* part, data.success !== false
ShouldCacheNotFalse(statusCode, data) == ~(Has(data, "success") /\ data.success = FALSE)

\* if (res.statusCode === 200 && data.success)
ShouldCache(statusCode, data) == statusCode = 200 /\ Truthy(data, "success")

\* variant of ResponseToCache: the metadata block of the hit branch is
\* stamped on what is stored as well
ResponseToCacheHitFields(data, cfg) ==
    Spread(Delete(data, {"cached", "cacheTimestamp", "cacheMetadata"}),
           [cacheMetadata |-> [cachedAt    |-> now,
                               perpetual   |-> cfg.perpetual,
                               cachePrefix |-> cfg.cachePrefix,
                               originalTtl |-> cfg.ttl,
                               isPerpetual |-> cfg.perpetual,
                               cacheAge    |-> 0,
                               servedAt    |-> now]])

\* the object the overridden res.json hands to redisService.set
ResponseToCache(data, cfg) ==
    Spread(Delete(data, {"cached", "cacheTimestamp", "cacheMetadata"}),
           [cacheMetadata |-> [cachedAt    |-> now,
                               perpetual   |-> cfg.perpetual,
                               cachePrefix |-> cfg.cachePrefix,
                               originalTtl |-> cfg.ttl]])

\* variant of SetCalls: the key is derived again, from the unrounded cacheData
SetCallsRawKey(rq, cfg, statusCode, data) ==
    IF rq.jsonOverridden /\ ShouldCache(statusCode, data)
    THEN << [key  |-> <<[s |-> cfg.cachePrefix], Hash(CacheData(cfg.cachePrefix, rq))>>,
             data |-> ResponseToCache(data, cfg),
             ttl  |-> IF cfg.perpetual THEN 0 ELSE cfg.ttl] >>
    ELSE << >>

\* the redisService.set calls the overridden res.json issues for data
SetCalls(rq, cfg, statusCode, data) ==
    IF rq.jsonOverridden /\ ShouldCache(statusCode, data)
    THEN << [key  |-> rq.cacheKey,
             data |-> ResponseToCache(data, cfg),
             ttl  |-> IF cfg.perpetual THEN 0 ELSE cfg.ttl] >>
    ELSE << >>

\* res.status(statusCode).json(data) seen through the middleware: the set
\* is issued without being awaited, then originalJson sends data
ResJson(rq, cfg, statusCode, data) ==
    [rq EXCEPT !.pc = "done",
               !.pendingSet = rq.pendingSet \o SetCalls(rq, cfg, statusCode, data),
               !.res = [statusCode |-> statusCode, body |-> data]]

\* variant of AfterSet: the write is awaited and its failure answered 500
AfterSetFailsResponse(rq, returns) ==
    [rq EXCEPT !.pendingSet = Tail(rq.pendingSet),
               !.res = IF returns THEN rq.res
                       ELSE [statusCode |-> 500,
                             body |-> [error |-> "Internal Server Error", timestamp |-> now]]]

\* the request once a set it issued has settled; the rejection handler only logs
AfterSet(rq, returns) == [rq EXCEPT !.pendingSet = Tail(rq.pendingSet)]

(* ----------------------- googleMapsService.js -------------------------- *)
\* what the provider holds for a location: a function of what it is asked
ProviderRecord(query) ==
    [formatted_address |-> [addressOf |-> query], place_id |-> [placeOf |-> query]]

\* variant of reverseGeocode: the provider is asked for the coordinates as
\* they are passed in, without the rounding to 2 decimals
reverseGeocodeAsPassed(latitude, longitude, outcome) ==
    LET coords == [latitude |-> latitude, longitude |-> longitude] IN
    CASE outcome = "ok" ->
           [success |-> TRUE,
            data |-> Spread([coordinates |-> coords], ProviderRecord(coords))]
      [] outcome = "no_results" ->
           [success |-> FALSE,
            message |-> "No address found for the provided coordinates",
            coordinates |-> coords]
      [] OTHER -> THROWN

\* GoogleMapsService.reverseGeocode: a result object, or THROWN
reverseGeocode(latitude, longitude, outcome) ==
    LET roundedCoords == roundCoordinates(latitude, longitude, 2) IN
    CASE outcome = "ok" ->
           [success |-> TRUE,
            data |-> Spread([coordinates |-> roundedCoords], ProviderRecord(roundedCoords))]
      [] outcome = "no_results" ->
           [success |-> FALSE,
            message |-> "No address found for the provided coordinates",
            coordinates |-> roundedCoords]
      [] OTHER -> THROWN

\* GoogleMapsService.geocode: a result object, or THROWN
geocode(address, outcome) ==
    CASE outcome = "ok" ->
           [success |-> TRUE,
            data |-> Spread([address |-> address], ProviderRecord(address))]
      [] outcome = "no_results" ->
           [success |-> FALSE,
            message |-> "No coordinates found for the provided address",
            address |-> address]
      [] OTHER -> THROWN

(* --------------------------- errorHandler.js --------------------------- *)
\* the status and body errorHandler sends for an error thrown by the
\* provider client; details are dropped in production
errorHandler(outcome) ==
    IF outcome = "api_error"
    THEN [statusCode |-> 503,
          body |-> IF isUpstash
                   THEN [error |-> "Geocoding service error", timestamp |-> now]
                   ELSE [error |-> "Geocoding service error",
                         details |-> "Google Maps API error", timestamp |-> now]]
    ELSE [statusCode |-> 500,
          body |-> [error |-> "Internal Server Error", timestamp |-> now]]

(* ---------------------------- geocoding.js ----------------------------- *)
UserBlock(rq) == [uid |-> rq.user.uid, isAnonymous |-> rq.user.isAnonymous]

\* the status and body the route handler (or errorHandler behind it) sends
HandlerResponse(rq, outcome) ==
    LET result == IF rq.route = "reverse"
                  THEN reverseGeocode(rq.coordinates.latitude, rq.coordinates.longitude, outcome)
                  ELSE geocode(rq.address, outcome)
    IN  IF result = THROWN THEN errorHandler(outcome)
        ELSE IF ~result.success
        THEN [statusCode |-> 404,
              body |-> IF rq.route = "reverse"
                       THEN [success |-> FALSE, message |-> result.message,
                             coordinates |-> result.coordinates]
                       ELSE [success |-> FALSE, message |-> result.message,
                             address |-> result.address]]
        ELSE [statusCode |-> 200,
              body |-> [success |-> TRUE,
                        message |-> IF rq.route = "reverse"
                                    THEN "Address retrieved successfully"
                                    ELSE "Coordinates retrieved successfully",
                        data |-> result.data,
                        user |-> UserBlock(rq)]]

(* --------------------------- validation.js ----------------------------- *)
\* address.trim()
Trim(address) ==
    CASE address = " Av Paulista 1000 " -> "Av Paulista 1000"
      [] address = "   " -> ""
      [] OTHER -> address

\* return res.status(statusCode).json({ error, code }) of a middleware that
\* does not call next()
Refuse(rq, statusCode, error, code) ==
    [rq EXCEPT !.pc = "done",
               !.res = [statusCode |-> statusCode, body |-> [error |-> error, code |-> code]]]

\* req.user for a verified token
Authenticated(uid) == [uid |-> uid, isAnonymous |-> TRUE]

\* authenticateFirebaseToken once verifyIdToken has settled: a header
\* [authorization |-> [bearer |-> uid]] carries a token that verifies to uid,
\* [authorization |-> [expired |-> uid]] one that every configuration
\* refuses as expired
authenticateFirebaseToken(rq, headers) ==
    IF ~Has(headers, "authorization")
    THEN Refuse(rq, 401, "Authorization header is required", "MISSING_AUTH_HEADER")
    ELSE IF ~Has(headers.authorization, "bearer")
    THEN Refuse(rq, 401, "Token has expired", "TOKEN_EXPIRED")
    ELSE [rq EXCEPT !.user = Authenticated(headers.authorization.bearer)]

\* validateCoordinates: a 400 response, or req.coordinates (3 decimals) and
\* next()
validateCoordinates(rq, body) ==
    LET lat == parseFloat(Field(body, "latitude"))
        lng == parseFloat(Field(body, "longitude"))
    IN  IF ~Has(body, "latitude") \/ ~Has(body, "longitude")
        THEN Refuse(rq, 400, "Both latitude and longitude are required", "MISSING_COORDINATES")
        ELSE IF lat = NaN \/ lng = NaN
        THEN Refuse(rq, 400, "Latitude and longitude must be valid numbers",
                    "INVALID_COORDINATES_FORMAT")
        ELSE IF lat.number < -9000000 \/ lat.number > 9000000
        THEN Refuse(rq, 400, "Latitude must be between -90 and 90 degrees",
                    "INVALID_LATITUDE_RANGE")
        ELSE IF lng.number < -18000000 \/ lng.number > 18000000
        THEN Refuse(rq, 400, "Longitude must be between -180 and 180 degrees",
                    "INVALID_LONGITUDE_RANGE")
        ELSE [rq EXCEPT !.coordinates = roundCoordinates(lat.number, lng.number, 3)]

\* validateAddress: a 400 response, or req.address (trimmed) and next(); no
\* sample address is longer than 500 characters
validateAddress(rq, body) ==
    LET address == Field(body, "address") IN
    IF ~IsTruthy(address)
    THEN Refuse(rq, 400, "Address is required", "MISSING_ADDRESS")
    ELSE IF TypeOf(address) # "string"
    THEN Refuse(rq, 400, "Address must be a string", "INVALID_ADDRESS_FORMAT")
    ELSE IF Trim(address.string) = ""
    THEN Refuse(rq, 400, "Address cannot be empty", "EMPTY_ADDRESS")
    ELSE [rq EXCEPT !.address = Trim(address.string)]

\* variant of RouteMiddlewares: the validator is mounted before
\* authenticateFirebaseToken
RouteMiddlewaresValidateFirst(rq, headers, body) ==
    LET valid == IF rq.route = "reverse" THEN validateCoordinates(rq, body)
                 ELSE validateAddress(rq, body)
    IN  IF valid.res # NULL THEN valid
        ELSE authenticateFirebaseToken(valid, headers)

\* the middlewares each route mounts before cacheGeocodingResponse, in
\* their order: authenticateFirebaseToken, then the validator of the route;
\* one that answers does not call next()
RouteMiddlewares(rq, headers, body) ==
    LET authed == authenticateFirebaseToken(rq, headers)
    IN  IF authed.res # NULL THEN authed
        ELSE IF rq.route = "reverse" THEN validateCoordinates(authed, body)
        ELSE validateAddress(authed, body)

(* ------------------------------ state ---------------------------------- *)
NoRequest ==
    [pc |-> "idle", route |-> "", mount |-> NULL, user |-> NULL, coordinates |-> NULL,
     address |-> "", cacheKey |-> << >>, jsonOverridden |-> FALSE, pendingSet |-> << >>, res |-> NULL]

\* what is recorded about a request: the calls it made (next(), get, the
\* route handler, the keys of its set calls), whether the store was available
\* when the middleware ran, whether its key had been served before it
\* arrived, whether its read reached an entry, what the read returned, whether it
\* was answered from the cache, how each of its sets settled, and the
\* headers and the body it sent
NoHistory ==
    [nextCalls |-> 0, getCalls |-> 0, handlerCalls |-> 0, setKeys |-> << >>,
     availableAtStart |-> TRUE, servedBefore |-> FALSE,
     entryAtRead |-> FALSE, getResult |-> [none |-> TRUE],
     hit |-> FALSE, setReturns |-> << >>, headers |-> NULL, body |-> NULL]

\* no call of generateCacheKey, no direct call of the store, no run of
\* runDiagnostic
NoKeys == << >>
NoOp == [op |-> "none"]
NoDiagnostic == [d \in Runs |-> [pc |-> "idle", testKey |-> << >>]]
\* no run of warmupCache
NoWarmup == [pc |-> "idle"]

\* the state after `new RedisService()`: the socket client is created and
\* connect() is awaited; the Upstash client is ready at once, or there are no
\* credentials and the cache stays off
Init ==
    /\ isUpstash \in BOOLEAN
    /\ \/ ~isUpstash /\ client = "live" /\ isEnabled = FALSE /\ initPc = "connecting"
       \/ isUpstash /\ client = "live" /\ isEnabled = TRUE /\ initPc = "done"
       \/ isUpstash /\ client = "null" /\ isEnabled = FALSE /\ initPc = "done"
    /\ store = << >>
    /\ now = 0
    /\ req = [r \in Req |-> NoRequest]
    /\ hist = [r \in Req |-> NoHistory]
    /\ servedKeys = {}
    /\ users = {}
    /\ keys = NoKeys
    /\ lastOp = NoOp
    /\ diag = NoDiagnostic
    /\ warm = NoWarmup

(* ------------------------- RedisService events ------------------------- *)
\* await this.client.connect() resolves
ConnectResolves ==
    /\ initPc = "connecting"
    /\ initPc' = "done"
    /\ UNCHANGED <<isUpstash, client, isEnabled, store, now, req, hist, servedKeys, users, keys, lastOp, diag, warm>>

\* variant of ConnectRejects: the catch block clears isEnabled and keeps
\* the client
ConnectRejectsKeepsClient ==
    /\ initPc = "connecting"
    /\ initPc' = "failed"
    /\ isEnabled' = FALSE
    /\ UNCHANGED <<isUpstash, client, store, now, req, hist, servedKeys, users, keys, lastOp, diag, warm>>

\* await this.client.connect() rejects
ConnectRejects ==
    /\ initPc = "connecting"
    /\ initPc' = "failed"
    /\ client' = "null"
    /\ isEnabled' = FALSE
    /\ UNCHANGED <<isUpstash, store, now, req, hist, servedKeys, users, keys, lastOp, diag, warm>>

\* this.client.on('connect', ...)
OnConnect ==
    /\ ~isUpstash
    /\ ~isEnabled
    /\ isEnabled' = TRUE
    /\ UNCHANGED <<isUpstash, client, initPc, store, now, req, hist, servedKeys, users, keys, lastOp, diag, warm>>

\* this.client.on('error', ...)
OnError ==
    /\ ~isUpstash
    /\ isEnabled
    /\ isEnabled' = FALSE
    /\ UNCHANGED <<isUpstash, client, initPc, store, now, req, hist, servedKeys, users, keys, lastOp, diag, warm>>

\* time passes; only differences of times are observed, so the clock is
\* read from the first capture on
Tick ==
    /\ now < MaxTicks * 1500
    /\ store # << >> \/ \E r \in Req : req[r].pendingSet # << >>
    /\ now' = now + 1500
    /\ UNCHANGED <<isUpstash, client, isEnabled, initPc, store, req, hist, servedKeys, users, keys, lastOp, diag, warm>>

(* ----------------------------- requests -------------------------------- *)
\* the response is out and every set the request issued has settled
Finished(r) == req[r].pc = "done" /\ req[r].pendingSet = << >>

\* users are interchangeable: a request comes from a user seen before or from
\* the first one not yet seen
KnownOrNext ==
    users \cup (IF "u1" \notin users THEN {"u1"} ELSE IF "u2" \notin users THEN {"u2"} ELSE {})

\* a POST to a route on which cacheGeocodingResponse is mounted with the
\* arguments cfg: once authenticateFirebaseToken has settled, the validator
\* and the middleware run without yielding, up to a 401 or 400 response, to
\* `await redisService.get(cacheKey)` or, with the store unavailable, to
\* next(); the closure of the middleware keeps cfg
ArriveAt(r, cfg, headers, route, body) ==
    /\ req[r].pc = "idle"
    /\ \A q \in Req : q < r => req[q].pc # "idle"
    /\ (Has(headers, "authorization") /\ Has(headers.authorization, "bearer"))
          => headers.authorization.bearer \in KnownOrNext
    /\ LET valid == RouteMiddlewares([NoRequest EXCEPT !.route = route], headers, body)
           refused == valid.res # NULL
       IN  /\ req' = [req EXCEPT ![r] =
                        IF refused THEN valid
                        ELSE cacheGeocodingResponse([valid EXCEPT !.mount = cfg], cfg)]
           /\ hist' = [hist EXCEPT
                         ![r].headers = headers,
                         ![r].body = body,
                         ![r].availableAtStart = IF refused THEN @ ELSE isAvailable,
                         ![r].servedBefore = IF refused THEN @
                                             ELSE RequestCacheKey(cfg, valid) \in servedKeys,
                         ![r].nextCalls = IF req'[r].pc = "handler" THEN 1 ELSE 0,
                         ![r].getCalls = IF req'[r].pc = "get" THEN 1 ELSE 0]
           /\ users' = IF valid.user # NULL THEN users \cup {valid.user.uid} ELSE users
    /\ UNCHANGED <<isUpstash, client, isEnabled, initPc, store, now, servedKeys, keys, lastOp, diag, warm>>

\* POST /reverse or /forward, with the arguments the route passes
Arrive(r, headers, route, body) == ArriveAt(r, RouteConfig(route), headers, route, body)

\* redisService.get settles and the middleware goes on: a hit is answered,
\* a miss overrides res.json and calls next(), an exception calls next()
MwGet(r, clientThrows) ==
    /\ req[r].pc = "get"
    /\ initPc # "connecting"
    /\ LET cachedResponse == RedisGet(req[r].cacheKey, clientThrows) IN
       /\ req' = [req EXCEPT ![r] =
                    IF cachedResponse = THROWN THEN MwOnError(req[r])
                    ELSE IF IsHit(cachedResponse) THEN MwOnHit(req[r], cachedResponse)
                    ELSE MwOnMiss(req[r])]
       /\ hist' = [hist EXCEPT
                     ![r].getResult = cachedResponse,
                     ![r].entryAtRead = isAvailable /\ ~clientThrows /\ Holds(req[r].cacheKey),
                     ![r].hit = (req'[r].res # NULL),
                     ![r].nextCalls = IF req'[r].pc = "handler" THEN @ + 1 ELSE @]
    /\ UNCHANGED <<isUpstash, client, isEnabled, initPc, store, now, servedKeys, users, keys, lastOp, diag, warm>>

\* the route handler: the provider call settles and the handler (or the
\* errorHandler) answers through res.json
Handler(r, outcome) ==
    /\ req[r].pc = "handler"
    /\ LET cfg == req[r].mount
           response == HandlerResponse(req[r], outcome)
       IN  /\ req' = [req EXCEPT ![r] = ResJson(req[r], cfg, response.statusCode, response.body)]
           /\ hist' = [hist EXCEPT
                         ![r].handlerCalls = @ + 1,
                         ![r].setKeys = @ \o [i \in 1..Len(SetCalls(req[r], cfg, response.statusCode, response.body))
                                                |-> SetCalls(req[r], cfg, response.statusCode, response.body)[i].key]]
           /\ servedKeys' = IF req[r].jsonOverridden /\ response.statusCode = 200
                            THEN servedKeys \cup {req[r].cacheKey}
                            ELSE servedKeys
    /\ UNCHANGED <<isUpstash, client, isEnabled, initPc, store, now, users, keys, lastOp, diag, warm>>

\* a redisService.set issued by res.json settles
SetSettles(r, clientThrows) ==
    /\ req[r].pendingSet # << >>
    /\ initPc # "connecting"
    /\ LET call == Head(req[r].pendingSet)
           done == RedisSet(call.key, call.data, call.ttl, clientThrows)
       IN  /\ store' = done.store
           /\ req' = [req EXCEPT ![r] = AfterSet(req[r], done.returns)]
           /\ hist' = [hist EXCEPT ![r].setReturns = Append(@,
                         [returns   |-> done.returns,
                          failed    |-> ~isAvailable \/ clientThrows,
                          changed   |-> store' # store,
                          overwrote |-> call.key \in DOMAIN store /\ store' # store])]
    /\ UNCHANGED <<isUpstash, client, isEnabled, initPc, now, servedKeys, users, keys, lastOp, diag, warm>>

\* the request is over: its req and res objects are released
Forget(r) ==
    /\ Finished(r)
    /\ req' = [req EXCEPT ![r] = [NoRequest EXCEPT !.pc = "gone"]]
    /\ hist' = [hist EXCEPT ![r] = NoHistory]
    /\ UNCHANGED <<isUpstash, client, isEnabled, initPc, store, now, servedKeys, users, keys, lastOp, diag, warm>>

\* the program's steps; a finished request is released before anything else
\* happens, which no code observes
Step ==
    \/ ConnectResolves
    \/ ConnectRejects
    \/ OnConnect
    \/ OnError
    \/ Tick
    \/ \E r \in Req, headers \in ValidHeaders, body \in RawCoordinates :
          Arrive(r, headers, "reverse", body)
    \/ \E r \in Req, headers \in ValidHeaders, body \in RawAddresses :
          Arrive(r, headers, "forward", body)
    \/ \E r \in Req, clientThrows \in BOOLEAN : MwGet(r, clientThrows)
    \/ \E r \in Req, outcome \in ProviderOutcomes : Handler(r, outcome)
    \/ \E r \in Req, clientThrows \in BOOLEAN : SetSettles(r, clientThrows)

Next ==
    \/ (\A q \in Req : ~Finished(q)) /\ Step
    \/ \E r \in Req : Forget(r)

Spec == Init /\ [][Next]_vars

(* --------------------- the routes, any request ------------------------- *)
\* request headers without Authorization, and with a token that has expired
RefusedHeaders ==
    { [contentType |-> "application/json"],
      [authorization |-> [expired |-> TRUE]] }
\* bodies validateCoordinates refuses: no coordinates, a latitude that is
\* not a number, a latitude and a longitude out of range
RefusedCoordinates ==
    { [platform |-> [string |-> "ios"]],
      [latitude |-> [string |-> "invalid"], longitude |-> [number |-> -7400600]],
      [latitude |-> [number |-> 9100000], longitude |-> [number |-> -7400600]],
      [latitude |-> [number |-> 4071280], longitude |-> [number |-> 18100000]] }
\* bodies validateAddress refuses: no address, an address that is not a
\* string, a blank address
RefusedAddresses ==
    { [platform |-> [string |-> "ios"]],
      [address |-> [number |-> 12345]],
      [address |-> [string |-> "   "]] }

\* the steps of the routes with well-formed and refused requests; the
\* store is connected or not and stays so
StepAnyRequest ==
    \/ ConnectResolves
    \/ ConnectRejects
    \/ \E r \in Req, headers \in ValidHeaders \cup RefusedHeaders,
          body \in RawCoordinates \cup RefusedCoordinates :
          Arrive(r, headers, "reverse", body)
    \/ \E r \in Req, headers \in ValidHeaders \cup RefusedHeaders,
          body \in RawAddresses \cup RefusedAddresses :
          Arrive(r, headers, "forward", body)
    \/ \E r \in Req, clientThrows \in BOOLEAN : MwGet(r, clientThrows)
    \/ \E r \in Req, outcome \in ProviderOutcomes : Handler(r, outcome)
    \/ \E r \in Req, clientThrows \in BOOLEAN : SetSettles(r, clientThrows)

NextAnyRequest ==
    \/ (\A q \in Req : ~Finished(q)) /\ StepAnyRequest
    \/ \E r \in Req : Forget(r)

SpecAnyRequest == Init /\ [][NextAnyRequest]_vars

(* ------------------- generateCacheKey on its own ----------------------- *)
\* arguments of generateCacheKey: latitudes 40.714, 40.716, 40.706 and
\* 40.71276, longitudes -74.00594, -74.006 and -74.005, two addresses, the
\* two prefixes, no user id or one of two
KeyLatitudes == {4071400, 4071600, 4070600, 4071276}
KeyLongitudes == {-7400594, -7400600, -7400500}
KeyData ==
    [latitude : KeyLatitudes, longitude : KeyLongitudes]
        \cup {[address |-> "Av Paulista 1000"], [address |-> "Rua Augusta 10"]}
KeyPrefixes == {"reverse-geocode", "geocode"}
KeyUserIds == {""} \cup Users
KeyCalls == {1, 2}

\* two calls are about to be made, with any arguments
InitKeys ==
    /\ isUpstash = TRUE /\ client = "null" /\ isEnabled = FALSE /\ initPc = "done"
    /\ store = << >>
    /\ now = 0
    /\ req = [r \in Req |-> NoRequest]
    /\ hist = [r \in Req |-> NoHistory]
    /\ servedKeys = {}
    /\ users = {}
    /\ keys \in [KeyCalls -> [prefix : KeyPrefixes, data : KeyData, userId : KeyUserIds,
                               key : {<< >>}]]
    /\ lastOp = NoOp
    /\ diag = NoDiagnostic
    /\ warm = NoWarmup

\* call c of generateCacheKey returns
GenerateKey(c) ==
    /\ keys[c].key = << >>
    /\ keys' = [keys EXCEPT ![c].key = generateCacheKey(keys[c].prefix, keys[c].data,
                                                         keys[c].userId)]
    /\ UNCHANGED <<isUpstash, client, isEnabled, initPc, store, now, req, hist, servedKeys,
                   users, lastOp, diag, warm>>

NextKeys == \E c \in KeyCalls : GenerateKey(c)

SpecKeys == InitKeys /\ [][NextKeys]_vars

(* ------------------- RedisService called directly ---------------------- *)
\* the key, the payloads and the ttl arguments of the direct calls: the
\* object runDiagnostic stores, an array, a number, a boolean and a plain
\* string; no expiration, one second, two seconds
StoreKey == generateCacheKey("reverse-geocode", [latitude |-> 4071276, longitude |-> -7400594], "")
StorePayloads ==
    { [test |-> "data", number |-> 12345, boolean |-> TRUE, nested |-> [value |-> "nested test"]],
      [array |-> <<1, 2>>],
      [number |-> 12345],
      [boolean |-> TRUE],
      [string |-> "hello"] }
StoreTtls == {0, 1, 2}

\* the entry the backend has at key, expired or not, or null
EntryAt(key) == IF key \in DOMAIN store THEN store[key] ELSE NULL

\* await redisService.set(key, data, ttl)
CallSet(key, data, ttl, clientThrows) ==
    /\ initPc # "connecting"
    /\ LET done == RedisSet(key, data, ttl, clientThrows)
       IN  /\ store' = done.store
           /\ lastOp' = [op |-> "set", key |-> key, data |-> data, ttl |-> ttl, at |-> now,
                         failed |-> ~isAvailable \/ clientThrows,
                         before |-> EntryAt(key), returns |-> done.returns]
    /\ UNCHANGED <<isUpstash, client, isEnabled, initPc, now, req, hist, servedKeys, users,
                   keys, diag, warm>>

\* await redisService.get(key); afterSet is the set call that came right
\* before it on the same key, if any
CallGet(key, clientThrows) ==
    /\ initPc # "connecting"
    /\ lastOp' = [op |-> "get", key |-> key, at |-> now,
                  failed |-> ~isAvailable \/ clientThrows,
                  afterSet |-> IF lastOp.op = "set" /\ lastOp.key = key
                               THEN [data |-> lastOp.data, ttl |-> lastOp.ttl,
                                     at |-> lastOp.at, returns |-> lastOp.returns]
                               ELSE NULL,
                  returns |-> RedisGet(key, clientThrows)]
    /\ UNCHANGED <<isUpstash, client, isEnabled, initPc, store, now, req, hist, servedKeys,
                   users, keys, diag, warm>>

\* await redisService.del(key)
CallDel(key, clientThrows) ==
    /\ initPc # "connecting"
    /\ LET done == RedisDel(key, clientThrows)
       IN  /\ store' = done.store
           /\ lastOp' = [op |-> "del", key |-> key, at |-> now,
                         failed |-> ~isAvailable \/ clientThrows,
                         returns |-> done.returns]
    /\ UNCHANGED <<isUpstash, client, isEnabled, initPc, now, req, hist, servedKeys, users,
                   keys, diag, warm>>

\* await redisService.ttl(key)
CallTtl(key, clientThrows) ==
    /\ initPc # "connecting"
    /\ lastOp' = [op |-> "ttl", key |-> key, at |-> now,
                  failed |-> ~isAvailable \/ clientThrows,
                  seconds |-> RedisTtl(key, clientThrows)]
    /\ UNCHANGED <<isUpstash, client, isEnabled, initPc, store, now, req, hist, servedKeys,
                   users, keys, diag, warm>>

\* await redisService.persist(key)
CallPersist(key, clientThrows) ==
    /\ initPc # "connecting"
    /\ LET done == RedisPersist(key, clientThrows)
       IN  /\ store' = done.store
           /\ lastOp' = [op |-> "persist", key |-> key, at |-> now,
                         failed |-> ~isAvailable \/ clientThrows,
                         returns |-> done.returns]
    /\ UNCHANGED <<isUpstash, client, isEnabled, initPc, now, req, hist, servedKeys, users,
                   keys, diag, warm>>

\* await redisService.ping()
CallPing(clientThrows) ==
    /\ initPc # "connecting"
    /\ lastOp' = [op |-> "ping", at |-> now,
                  failed |-> ~isAvailable \/ clientThrows,
                  returns |-> RedisPing(clientThrows)]
    /\ UNCHANGED <<isUpstash, client, isEnabled, initPc, store, now, req, hist, servedKeys,
                   users, keys, diag, warm>>

\* await redisService.getCacheInfo(key)
CallGetCacheInfo(key, existsThrows, ttlThrows, getThrows) ==
    /\ initPc # "connecting"
    /\ lastOp' = [op |-> "getCacheInfo", key |-> key, at |-> now,
                  failed |-> ~isAvailable \/ existsThrows,
                  ttlFailed |-> ttlThrows,
                  returns |-> getCacheInfo(key, existsThrows, ttlThrows, getThrows)]
    /\ UNCHANGED <<isUpstash, client, isEnabled, initPc, store, now, req, hist, servedKeys,
                   users, keys, diag, warm>>

\* CacheDiagnostic.fixCorruptedKey: what it returns and the keyspace it
\* leaves; del throws nothing, so the catch block is never entered
fixCorruptedKey(key, clientThrows) == RedisDel(key, clientThrows)

\* await cacheDiagnostic.fixCorruptedKey(key); before is the entry the
\* backend had at the key
CallFixCorruptedKey(key, clientThrows) ==
    /\ initPc # "connecting"
    /\ LET done == fixCorruptedKey(key, clientThrows)
       IN  /\ store' = done.store
           /\ lastOp' = [op |-> "fixCorruptedKey", key |-> key, at |-> now,
                         failed |-> ~isAvailable \/ clientThrows,
                         before |-> EntryAt(key), deleted |-> done.returns]
    /\ UNCHANGED <<isUpstash, client, isEnabled, initPc, now, req, hist, servedKeys, users,
                   keys, diag, warm>>

NextStore ==
    \/ ConnectResolves
    \/ ConnectRejects
    \/ OnConnect
    \/ OnError
    \/ Tick
    \/ \E data \in StorePayloads, ttl \in StoreTtls, clientThrows \in BOOLEAN :
          CallSet(StoreKey, data, ttl, clientThrows)
    \/ \E clientThrows \in BOOLEAN : CallGet(StoreKey, clientThrows)
    \/ \E clientThrows \in BOOLEAN : CallDel(StoreKey, clientThrows)
    \/ \E clientThrows \in BOOLEAN : CallFixCorruptedKey(StoreKey, clientThrows)
    \/ \E clientThrows \in BOOLEAN : CallTtl(StoreKey, clientThrows)
    \/ \E clientThrows \in BOOLEAN : CallPersist(StoreKey, clientThrows)
    \/ \E clientThrows \in BOOLEAN : CallPing(clientThrows)
    \/ \E existsThrows \in BOOLEAN, ttlThrows \in BOOLEAN, getThrows \in BOOLEAN :
          CallGetCacheInfo(StoreKey, existsThrows, ttlThrows, getThrows)

SpecStore == Init /\ [][NextStore]_vars

(* ------------- getCacheInfo, one client call at a time ----------------- *)
\* getCacheInfo(key) is called and client.exists settles: null is returned
\* when the service is disabled, when the call rejects and when the key does
\* not exist; else this.ttl(key) is called
InfoExists(key, existsThrows) ==
    /\ initPc # "connecting"
    /\ lastOp.op \notin {"getCacheInfo.ttl", "getCacheInfo.get"}
    /\ lastOp' = IF ~isAvailable \/ existsThrows \/ ~Holds(key)
                 THEN [op |-> "getCacheInfo", key |-> key, at |-> now,
                       failed |-> ~isAvailable \/ existsThrows,
                       ttlFailed |-> FALSE, returns |-> NULL]
                 ELSE [op |-> "getCacheInfo.ttl", key |-> key, calledAt |-> now]
    /\ UNCHANGED <<isUpstash, client, isEnabled, initPc, store, now, req, hist, servedKeys,
                   users, keys, diag, warm>>

\* this.ttl(key) settles and this.get(key) is called
InfoTtl(ttlThrows) ==
    /\ lastOp.op = "getCacheInfo.ttl"
    /\ lastOp' = [op |-> "getCacheInfo.get", key |-> lastOp.key, calledAt |-> lastOp.calledAt,
                  seconds |-> RedisTtl(lastOp.key, ttlThrows),
                  ttlFailed |-> ~isAvailable \/ ttlThrows]
    /\ UNCHANGED <<isUpstash, client, isEnabled, initPc, store, now, req, hist, servedKeys,
                   users, keys, diag, warm>>

\* this.get(key) settles and the object is returned
InfoGet(getThrows) ==
    /\ lastOp.op = "getCacheInfo.get"
    /\ LET data == RedisGet(lastOp.key, getThrows)
       IN  lastOp' = [op |-> "getCacheInfo", key |-> lastOp.key, at |-> now,
                      failed |-> FALSE, ttlFailed |-> lastOp.ttlFailed,
                      returns |-> [key |-> lastOp.key, exists |-> TRUE,
                                   ttl |-> lastOp.seconds,
                                   isPerpetual |-> lastOp.seconds = TtlNoExpiration,
                                   hasExpiration |-> lastOp.seconds > 0,
                                   cacheMetadata |->
                                       IF data # NULL /\ Has(data, "cacheMetadata")
                                       THEN data.cacheMetadata ELSE NULL]]
    /\ UNCHANGED <<isUpstash, client, isEnabled, initPc, store, now, req, hist, servedKeys,
                   users, keys, diag, warm>>

\* an entry is stored, with or without a TTL, before getCacheInfo is called
InfoSet(ttl) ==
    /\ lastOp.op \notin {"getCacheInfo.ttl", "getCacheInfo.get"}
    /\ CallSet(StoreKey, [test |-> "data"], ttl, FALSE)

\* entries are stored and expire while getCacheInfo runs
NextInfo ==
    \/ ConnectResolves
    \/ ConnectRejects
    \/ OnConnect
    \/ OnError
    \/ Tick
    \/ \E ttl \in StoreTtls : InfoSet(ttl)
    \/ \E existsThrows \in BOOLEAN : InfoExists(StoreKey, existsThrows)
    \/ \E ttlThrows \in BOOLEAN : InfoTtl(ttlThrows)
    \/ \E getThrows \in BOOLEAN : InfoGet(getThrows)

SpecInfo == Init /\ [][NextInfo]_vars

(* ------------------- CacheDiagnostic.runDiagnostic ---------------------- *)
\* const results = {...}
NoResults ==
    [redisAvailable |-> FALSE, pingSuccess |-> FALSE, setSuccess |-> FALSE,
     getSuccess |-> FALSE, dataIntegrity |-> FALSE, errors |-> << >>]

\* results.errors.push(message) when failed
PushIf(results, failed, message) ==
    IF failed THEN [results EXCEPT !.errors = Append(@, message)] ELSE results

\* `diagnostic:${Date.now()}` and the object stored under it
TestKey == <<[s |-> "diagnostic"], [n |-> now]>>
TestData ==
    [test |-> "data", timestamp |-> now, number |-> 12345, boolean |-> TRUE,
     nested |-> [value |-> "nested test"]]

\* run d of runDiagnostic is called and runs up to its first await: it
\* returns at once when the store is not available, else it calls ping.  The
\* runs are calls that may overlap; they are started in the order of their
\* numbers.
DiagStart(d) ==
    /\ diag[d].pc = "idle"
    /\ \A e \in Runs : e < d => diag[e].pc # "idle"
    /\ diag' = [diag EXCEPT ![d] =
                  [pc |-> IF isAvailable THEN "ping" ELSE "returned",
                   results |-> PushIf([NoResults EXCEPT !.redisAvailable = isAvailable],
                                      ~isAvailable,
                                      "Redis service is not available - check environment variables"),
                   testKey |-> << >>, testData |-> NULL]]
    /\ UNCHANGED <<isUpstash, client, isEnabled, initPc, store, now, req, hist, servedKeys,
                   users, keys, lastOp, warm>>

\* variant of DiagPing: a failed ping is not pushed on errors
DiagPingNoError(d, clientThrows) ==
    /\ diag[d].pc = "ping"
    /\ initPc # "connecting"
    /\ diag' = [diag EXCEPT ![d].pc = "set",
                            ![d].results.pingSuccess = RedisPing(clientThrows),
                            ![d].testKey = TestKey,
                            ![d].testData = TestData]
    /\ UNCHANGED <<isUpstash, client, isEnabled, initPc, store, now, req, hist, servedKeys,
                   users, keys, lastOp, warm>>

\* ping settles; the key and the data are made and set is called
DiagPing(d, clientThrows) ==
    /\ diag[d].pc = "ping"
    /\ initPc # "connecting"
    /\ diag' = [diag EXCEPT ![d].pc = "set",
                            ![d].results =
                                PushIf([@ EXCEPT !.pingSuccess = RedisPing(clientThrows)],
                                       ~RedisPing(clientThrows),
                                       "Redis ping failed - check connection"),
                            ![d].testKey = TestKey,
                            ![d].testData = TestData]
    /\ UNCHANGED <<isUpstash, client, isEnabled, initPc, store, now, req, hist, servedKeys,
                   users, keys, lastOp, warm>>

\* set(testKey, testData, 60) settles; get is called when it returned true,
\* else the diagnostic returns
DiagSet(d, clientThrows) ==
    /\ diag[d].pc = "set"
    /\ LET done == RedisSet(diag[d].testKey, diag[d].testData, 60, clientThrows)
       IN  /\ store' = done.store
           /\ diag' = [diag EXCEPT ![d].pc = IF done.returns THEN "get" ELSE "returned",
                                   ![d].results =
                                       PushIf([@ EXCEPT !.setSuccess = done.returns],
                                              ~done.returns,
                                              "Failed to set test data in Redis")]
    /\ UNCHANGED <<isUpstash, client, isEnabled, initPc, now, req, hist, servedKeys, users,
                   keys, lastOp, warm>>

\* get(testKey) settles; the data is compared and del is called; getFailed
\* records whether the get itself failed
DiagGet(d, clientThrows) ==
    /\ diag[d].pc = "get"
    /\ LET retrievedData == RedisGet(diag[d].testKey, clientThrows)
           getSuccess == retrievedData # NULL
           dataIntegrity ==
               /\ getSuccess
               /\ JSONstringify(diag[d].testData) = JSONstringify(retrievedData)
       IN  diag' = [diag EXCEPT
                      ![d].pc = "del",
                      ![d].results =
                          PushIf(PushIf([@ EXCEPT !.getSuccess = getSuccess,
                                                  !.dataIntegrity = dataIntegrity],
                                        ~getSuccess,
                                        "Failed to retrieve test data from Redis"),
                                 getSuccess /\ ~dataIntegrity,
                                 "Data integrity check failed - retrieved data does not match stored data")]
    /\ UNCHANGED <<isUpstash, client, isEnabled, initPc, store, now, req, hist, servedKeys,
                   users, keys, lastOp, warm>>

\* del(testKey) settles, its result is dropped, and the diagnostic returns
DiagDel(d, clientThrows) ==
    /\ diag[d].pc = "del"
    /\ store' = RedisDel(diag[d].testKey, clientThrows).store
    /\ diag' = [diag EXCEPT ![d].pc = "returned"]
    /\ UNCHANGED <<isUpstash, client, isEnabled, initPc, now, req, hist, servedKeys, users,
                   keys, lastOp, warm>>

NextDiag ==
    \/ ConnectResolves
    \/ ConnectRejects
    \/ OnConnect
    \/ OnError
    \/ Tick
    \/ \E d \in Runs : DiagStart(d)
    \/ \E d \in Runs, clientThrows \in BOOLEAN : DiagPing(d, clientThrows)
    \/ \E d \in Runs, clientThrows \in BOOLEAN : DiagSet(d, clientThrows)
    \/ \E d \in Runs, clientThrows \in BOOLEAN : DiagGet(d, clientThrows)
    \/ \E d \in Runs, clientThrows \in BOOLEAN : DiagDel(d, clientThrows)

SpecDiag == Init /\ [][NextDiag]_vars

(* ------------- cacheGeocodingResponse with other arguments ------------- *)
\* the ttl arguments sampled: 0, and two seconds
MountTtls == {0, 2}

\* cacheGeocodingResponse('reverse-geocode', ttl, false, perpetual) for
\* every combination of the ttl and perpetual arguments
Mounts ==
    { [cachePrefix |-> "reverse-geocode", ttl |-> ttl, userSpecific |-> FALSE,
       perpetual |-> perpetual] : ttl \in MountTtls, perpetual \in BOOLEAN }

\* cacheGeocodingResponse mounted with a prefix it has no cacheData for
UnknownMount ==
    [cachePrefix |-> "places", ttl |-> 0, userSpecific |-> FALSE, perpetual |-> TRUE]

\* requests through the middleware mounted with any of these arguments, and
\* getCacheInfo calls on the key of the requests
StepMounted ==
    \/ ConnectResolves
    \/ ConnectRejects
    \/ Tick
    \/ \E r \in Req, cfg \in Mounts, body \in RawCoordinates :
          ArriveAt(r, cfg, [authorization |-> [bearer |-> "u1"]], "reverse", body)
    \/ \E r \in Req, body \in RawCoordinates :
          ArriveAt(r, UnknownMount, [authorization |-> [bearer |-> "u1"]], "reverse", body)
    \/ \E r \in Req, clientThrows \in BOOLEAN : MwGet(r, clientThrows)
    \/ \E r \in Req : Handler(r, "ok")
    \/ \E r \in Req, clientThrows \in BOOLEAN : SetSettles(r, clientThrows)
    \/ \E ttlThrows \in BOOLEAN : CallGetCacheInfo(StoreKey, FALSE, ttlThrows, FALSE)

NextMounted ==
    \/ (\A q \in Req : ~Finished(q)) /\ StepMounted
    \/ \E r \in Req : Forget(r)

SpecMounted == Init /\ [][NextMounted]_vars

(* ------------- PerpetualCacheManager and CacheDiagnostic --------------- *)
\* the patterns migrateToPerpetual is called with: its default and the two
\* its comment names
MigratePatterns == {"*geocode*", "geocode:*", "reverse-geocode:*"}

\* PerpetualCacheManager.migrateToPerpetual: the object it resolves to; it
\* makes no call of the store
migrateToPerpetual(pattern) ==
    IF ~isAvailable
    THEN [success |-> FALSE, message |-> "Redis service is not available"]
    ELSE [success |-> TRUE, message |-> "Migration completed successfully",
          totalProcessed |-> 0, successCount |-> 0, errorCount |-> 0, errors |-> << >>]

\* await perpetualCache.migrateToPerpetual(pattern); expiring says whether
\* the store held an entry with a deadline when it was called
CallMigrateToPerpetual(pattern) ==
    /\ lastOp' = [op |-> "migrateToPerpetual", pattern |-> pattern, at |-> now,
                  failed |-> ~isAvailable,
                  expiring |-> \E k \in DOMAIN store :
                                  Holds(k) /\ store[k].expireAt # TtlNoExpiration,
                  returns |-> migrateToPerpetual(pattern)]
    /\ UNCHANGED <<isUpstash, client, isEnabled, initPc, store, now, req, hist, servedKeys,
                   users, keys, diag, warm>>

(* CacheManager *)
\* CacheManager.exists; clientThrows: the client call of redisService.get rejects
exists(key, clientThrows) ==
    IF ~isAvailable THEN FALSE
    ELSE RedisGet(key, clientThrows) # NULL

\* CacheManager.getWithMetadata
getWithMetadata(key, clientThrows) ==
    IF ~isAvailable THEN NULL
    ELSE LET data == RedisGet(key, clientThrows) IN
         IF IsTruthy(data)
         THEN [data |-> data, key |-> key, retrieved |-> now, cached |-> TRUE]
         ELSE NULL

(* CacheDiagnostic *)
\* const result = {...} of testCacheKey
NoKeyTest ==
    [keyExists |-> FALSE, dataValid |-> FALSE, dataType |-> NULL, rawData |-> NULL,
     parsedData |-> NULL, error |-> NULL]

\* CacheDiagnostic.testCacheKey: the object it resolves to; rawThrows: the
\* call client.get rejects, getThrows: the client call of redisService.get
\* rejects.  redisService.get catches what JSON.parse throws, so the inner
\* catch block is never entered.
testCacheKey(key, rawThrows, getThrows) ==
    IF ~isAvailable THEN [NoKeyTest EXCEPT !.error = [string |-> "Redis not available"]]
    ELSE IF rawThrows THEN [NoKeyTest EXCEPT !.error = [string |-> "client error"]]
    ELSE LET rawData == ClientGet(key)
             result  == [NoKeyTest EXCEPT !.keyExists = rawData # NULL,
                                          !.rawData = rawData,
                                          !.dataType = [string |-> TypeOf(rawData)]]
         IN  IF IsTruthy(rawData)
             THEN LET parsedData == RedisGet(key, getThrows)
                  IN  [result EXCEPT !.parsedData = parsedData,
                                     !.dataValid = parsedData # NULL]
             ELSE result

(* PerpetualCacheManager.warmupCache *)
\* the items of a locations array: a coordinate pair whose key is StoreKey,
\* an address, a pair whose lat is not a number, an object with neither
WarmLocations ==
    { [lat |-> [number |-> 4071276], lng |-> [number |-> -7400594]],
      [address |-> [string |-> "Av Paulista 1000"]],
      [lat |-> [string |-> "abc"], lng |-> [number |-> -7400594]],
      [name |-> [string |-> "depot"]] }
\* the arrays warmupCache is called with
MaxLocations == 2
WarmLists == UNION { [1..n -> WarmLocations] : n \in 0..MaxLocations }

\* the key the loop body derives for a location: [key |-> ...], THROWN when
\* roundCoordinate throws 'Coordinate must be a valid number' inside
\* generateCacheKey, [invalid |-> ...] when the location has neither form
WarmupKey(location) ==
    LET lat == Field(location, "lat")
        lng == Field(location, "lng")
        address == Field(location, "address")
    IN  IF IsTruthy(lat) /\ IsTruthy(lng)
        THEN IF TypeOf(lat) = "number" /\ TypeOf(lng) = "number"
             THEN [key |-> generateCacheKey("reverse-geocode",
                             [latitude |-> lat.number, longitude |-> lng.number], "")]
             ELSE THROWN
        ELSE IF IsTruthy(address)
        THEN [key |-> generateCacheKey("geocode", [address |-> address.string], "")]
        ELSE [invalid |-> location]

\* const results = {...} of warmupCache
NoWarmupResults(locations) ==
    [success |-> TRUE, totalLocations |-> Len(locations), alreadyCached |-> 0,
     needsGeocoding |-> 0, errors |-> << >>]

\* the for loop from item i up to its next await or to the return: an item
\* of neither form is pushed on errors, an exception is caught outside the
\* loop and ends it
RECURSIVE WarmLoop(_, _, _)
WarmLoop(w, i, results) ==
    IF i > Len(w.locations)
    THEN [w EXCEPT !.pc = "returned", !.i = i, !.results = results]
    ELSE LET k == WarmupKey(w.locations[i]) IN
         IF k = THROWN
         THEN [w EXCEPT !.pc = "returned", !.i = i,
                        !.results = [success |-> FALSE,
                                     error |-> "Coordinate must be a valid number"]]
         ELSE IF Has(k, "invalid")
         THEN WarmLoop(w, i + 1, [results EXCEPT !.errors = Append(@, k)])
         ELSE [w EXCEPT !.pc = "get", !.i = i, !.cacheKey = k.key, !.results = results]

\* warmupCache(locations) is called and runs up to its first await or to its
\* return
WarmStart(locations) ==
    /\ warm.pc = "idle"
    /\ LET w == [pc |-> "start", locations |-> locations, i |-> 0, cacheKey |-> << >>,
                 availableAtStart |-> isAvailable, geocodeCalls |-> 0, results |-> NULL]
       IN  warm' = IF ~isAvailable \/ Len(locations) = 0
                   THEN [w EXCEPT !.pc = "returned",
                                  !.results = [success |-> FALSE,
                                               message |-> "Cache not available or no locations provided"]]
                   ELSE WarmLoop(w, 1, NoWarmupResults(locations))
    /\ UNCHANGED <<isUpstash, client, isEnabled, initPc, store, now, req, hist, servedKeys,
                   users, keys, lastOp, diag>>

\* variant of WarmGet: a location that is not cached is geocoded and stored
WarmGetGeocodes(clientThrows) ==
    /\ warm.pc = "get"
    /\ initPc # "connecting"
    /\ LET cached == RedisGet(warm.cacheKey, clientThrows)
           fresh  == [success |-> TRUE, data |-> ProviderRecord(warm.locations[warm.i])]
       IN  IF IsTruthy(cached)
           THEN /\ warm' = WarmLoop(warm, warm.i + 1,
                                    [warm.results EXCEPT !.alreadyCached = @ + 1])
                /\ store' = store
           ELSE /\ warm' = WarmLoop([warm EXCEPT !.geocodeCalls = @ + 1], warm.i + 1,
                                    [warm.results EXCEPT !.needsGeocoding = @ + 1])
                /\ store' = RedisSet(warm.cacheKey, fresh, 0, FALSE).store
    /\ UNCHANGED <<isUpstash, client, isEnabled, initPc, now, req, hist, servedKeys,
                   users, keys, lastOp, diag>>

\* redisService.get(cacheKey) settles: the location is counted and the loop
\* goes on
WarmGet(clientThrows) ==
    /\ warm.pc = "get"
    /\ initPc # "connecting"
    /\ LET cached == RedisGet(warm.cacheKey, clientThrows)
       IN  warm' = WarmLoop(warm, warm.i + 1,
                            IF IsTruthy(cached)
                            THEN [warm.results EXCEPT !.alreadyCached = @ + 1]
                            ELSE [warm.results EXCEPT !.needsGeocoding = @ + 1])
    /\ UNCHANGED <<isUpstash, client, isEnabled, initPc, store, now, req, hist, servedKeys,
                   users, keys, lastOp, diag>>

(* the cache diagnostic script, run with a key argument *)
\* main() after `await cacheDiagnostic.runDiagnostic()`, which is run 1:
\* testCacheKey(testKey) settles; fixCorruptedKey is called when
\* keyTest.error is set, else the script ends.  entry is what the backend
\* held at the key when testCacheKey was called.
ScriptTestKey(key, rawThrows, getThrows) ==
    /\ diag[1].pc = "returned"
    /\ lastOp.op # "script"
    /\ LET keyTest == testCacheKey(key, rawThrows, getThrows)
       IN  lastOp' = [op |-> "script",
                      pc |-> IF IsTruthy(keyTest.error) THEN "fix" ELSE "ended",
                      key |-> key,
                      failed |-> ~isAvailable \/ rawThrows,
                      entry |-> IF Holds(key) THEN store[key] ELSE NULL,
                      keyTest |-> keyTest,
                      fixCalled |-> FALSE,
                      fixed |-> FALSE]
    /\ UNCHANGED <<isUpstash, client, isEnabled, initPc, store, now, req, hist, servedKeys,
                   users, keys, diag, warm>>

\* fixCorruptedKey(testKey) settles and the script ends
ScriptFix(clientThrows) ==
    /\ lastOp.op = "script" /\ lastOp.pc = "fix"
    /\ LET done == fixCorruptedKey(lastOp.key, clientThrows)
       IN  /\ store' = done.store
           /\ lastOp' = [lastOp EXCEPT !.pc = "ended", !.fixCalled = TRUE,
                                       !.fixed = done.returns]
    /\ UNCHANGED <<isUpstash, client, isEnabled, initPc, now, req, hist, servedKeys, users,
                   keys, diag, warm>>

\* an entry is stored at the key before the script tests it: an object, or
\* a plain string
ScriptSet(data) ==
    /\ lastOp.op # "script"
    /\ CallSet(StoreKey, data, 0, FALSE)

NextScript ==
    \/ ConnectResolves
    \/ ConnectRejects
    \/ OnConnect
    \/ OnError
    \/ DiagStart(1)
    \/ \E clientThrows \in BOOLEAN : DiagPing(1, clientThrows)
    \/ \E clientThrows \in BOOLEAN : DiagSet(1, clientThrows)
    \/ \E clientThrows \in BOOLEAN : DiagGet(1, clientThrows)
    \/ \E clientThrows \in BOOLEAN : DiagDel(1, clientThrows)
    \/ \E data \in {[test |-> "data"], [string |-> "hello"]} : ScriptSet(data)
    \/ \E rawThrows \in BOOLEAN, getThrows \in BOOLEAN :
          ScriptTestKey(StoreKey, rawThrows, getThrows)
    \/ \E clientThrows \in BOOLEAN : ScriptFix(clientThrows)

SpecScript == Init /\ [][NextScript]_vars

(* warmupCache next to the reverse route *)
\* raw coordinate pairs: 40.71276,-74.00594; 40.7147,-74.00594, whose
\* latitude is 40.715 at 3 decimals; 0,-74.00594 and 40.71276,0
WarmPairs ==
    { [latitude |-> 4071276, longitude |-> -7400594],
      [latitude |-> 4071470, longitude |-> -7400594],
      [latitude |-> 0,       longitude |-> -7400594],
      [latitude |-> 4071276, longitude |-> 0] }

\* a pair as the body of POST /reverse and as an item of a locations array
PairBody(pair) ==
    [latitude |-> [number |-> pair.latitude], longitude |-> [number |-> pair.longitude]]
PairLocation(pair) ==
    [lat |-> [number |-> pair.latitude], lng |-> [number |-> pair.longitude]]

\* the locations arrays: one or two items, each a pair, or the pair
\* 0,-74.00594 together with an address
PairLocations ==
    { PairLocation(pair) : pair \in WarmPairs }
        \cup { [lat |-> [number |-> 0], lng |-> [number |-> -7400594],
                address |-> [string |-> "Av Paulista 1000"]] }
PairLists == UNION { [1..n -> PairLocations] : n \in {1, 2} }

\* the cache key of a reverse request whose body is the pair: the key
\* cacheGeocodingResponse derives from what validateCoordinates leaves in
\* req.coordinates
ReverseRequestKey(pair) ==
    RequestCacheKey(RouteConfig("reverse"),
                    validateCoordinates([NoRequest EXCEPT !.route = "reverse"], PairBody(pair)))

\* one reverse request with any of the pairs, and one run of warmupCache
StepWarmup ==
    \/ ConnectResolves
    \/ ConnectRejects
    \/ \E pair \in WarmPairs :
          Arrive(1, [authorization |-> [bearer |-> "u1"]], "reverse", PairBody(pair))
    \/ \E clientThrows \in BOOLEAN : MwGet(1, clientThrows)
    \/ Handler(1, "ok")
    \/ \E clientThrows \in BOOLEAN : SetSettles(1, clientThrows)
    \/ \E locations \in PairLists : WarmStart(locations)
    \/ \E clientThrows \in BOOLEAN : WarmGet(clientThrows)

NextWarmup ==
    \/ (\A q \in Req : ~Finished(q)) /\ StepWarmup
    \/ \E r \in Req : Forget(r)

SpecWarmup == Init /\ [][NextWarmup]_vars

(* the utilities called directly *)
\* redisService.isAvailable()
CallIsAvailable ==
    /\ lastOp' = [op |-> "isAvailable", at |-> now, failed |-> FALSE, returns |-> isAvailable]
    /\ UNCHANGED <<isUpstash, client, isEnabled, initPc, store, now, req, hist, servedKeys,
                   users, keys, diag, warm>>

\* await cacheManager.exists(key)
CallExists(key, clientThrows) ==
    /\ initPc # "connecting"
    /\ lastOp' = [op |-> "exists", key |-> key, at |-> now,
                  failed |-> ~isAvailable \/ clientThrows,
                  found |-> exists(key, clientThrows)]
    /\ UNCHANGED <<isUpstash, client, isEnabled, initPc, store, now, req, hist, servedKeys,
                   users, keys, diag, warm>>

\* await cacheManager.getWithMetadata(key)
CallGetWithMetadata(key, clientThrows) ==
    /\ initPc # "connecting"
    /\ lastOp' = [op |-> "getWithMetadata", key |-> key, at |-> now,
                  failed |-> ~isAvailable \/ clientThrows,
                  returns |-> getWithMetadata(key, clientThrows)]
    /\ UNCHANGED <<isUpstash, client, isEnabled, initPc, store, now, req, hist, servedKeys,
                   users, keys, diag, warm>>

\* await cacheDiagnostic.testCacheKey(key); entry is what the backend held
\* at the key when it was called
CallTestCacheKey(key, rawThrows, getThrows) ==
    /\ initPc # "connecting"
    /\ lastOp' = [op |-> "testCacheKey", key |-> key, at |-> now,
                  failed |-> ~isAvailable \/ rawThrows,
                  getFailed |-> getThrows,
                  entry |-> IF Holds(key) THEN store[key] ELSE NULL,
                  returns |-> testCacheKey(key, rawThrows, getThrows)]
    /\ UNCHANGED <<isUpstash, client, isEnabled, initPc, store, now, req, hist, servedKeys,
                   users, keys, diag, warm>>

\* the payloads and ttl arguments of the set calls that fill the store
\* around the utilities: an object, and a plain string, which is stored as
\* it is and does not decode
ToolPayloads ==
    { [test |-> "data", number |-> 12345, boolean |-> TRUE, nested |-> [value |-> "nested test"]],
      [string |-> "hello"] }
ToolTtls == {0, 2}

NextTools ==
    \/ ConnectResolves
    \/ ConnectRejects
    \/ OnConnect
    \/ OnError
    \/ \E data \in ToolPayloads, ttl \in ToolTtls, clientThrows \in BOOLEAN :
          CallSet(StoreKey, data, ttl, clientThrows)
    \/ \E clientThrows \in BOOLEAN : CallPing(clientThrows)
    \/ \E existsThrows \in BOOLEAN, ttlThrows \in BOOLEAN, getThrows \in BOOLEAN :
          CallGetCacheInfo(StoreKey, existsThrows, ttlThrows, getThrows)
    \/ CallIsAvailable
    \/ \E clientThrows \in BOOLEAN : CallExists(StoreKey, clientThrows)
    \/ \E clientThrows \in BOOLEAN : CallGetWithMetadata(StoreKey, clientThrows)
    \/ \E rawThrows \in BOOLEAN, getThrows \in BOOLEAN :
          CallTestCacheKey(StoreKey, rawThrows, getThrows)
    \/ \E pattern \in MigratePatterns : CallMigrateToPerpetual(pattern)
    \/ \E locations \in WarmLists : WarmStart(locations)
    \/ \E clientThrows \in BOOLEAN : WarmGet(clientThrows)

SpecTools == Init /\ [][NextTools]_vars

(* ------------------------------ claims --------------------------------- *)
\* the request has reached the cache middleware and is not yet released
Arrived(r) == req[r].pc \in {"get", "handler", "done"}
\* an object without the fields the cache layer attaches
Payload(obj) == Delete(obj, {"cached", "cacheTimestamp", "cacheMetadata"})
\* the part of a body the provider result decides
Core(obj) == [f \in (DOMAIN obj) \cap {"success", "message", "data"} |-> obj[f]]
\* the body the route handler sends for this request when the provider succeeds
FreshBody(r) == HandlerResponse(req[r], "ok").body

\* C1: a request that finds an entry for its key never reaches the route
\* handler (no next(), no computation) and issues no write; its 200 response
\* is the stored payload plus cached = true and cacheMetadata with cacheAge,
\* isPerpetual and servedAt; the entry in the store is the one it read.
C1_HitServesStoredEntry ==
    \A r \in Req : hist[r].hit =>
        /\ hist[r].nextCalls = 0
        /\ hist[r].handlerCalls = 0
        /\ hist[r].setKeys = << >>
        /\ req[r].pendingSet = << >>
        /\ req[r].res.statusCode = 200
        /\ Payload(req[r].res.body) = Payload(hist[r].getResult)
        /\ req[r].res.body.cached = TRUE
        /\ req[r].res.body.cacheMetadata =
             Spread(hist[r].getResult.cacheMetadata,
                    [isPerpetual |-> hist[r].getResult.cacheMetadata.perpetual,
                     cacheAge |-> (now - hist[r].getResult.cacheMetadata.cachedAt) \div 1000,
                     servedAt |-> now])
        /\ Holds(req[r].cacheKey)
        /\ JSONparse(store[req[r].cacheKey].raw) = hist[r].getResult

\* a hit served some time after the entry was captured
C1_Witness ==
    \E r \in Req : hist[r].hit /\ req[r].res.body.cacheMetadata.cacheAge > 0

\* C2: every set the middleware issues, and every entry in the store, comes
\* from a response with status 200 and success = true; a 404 or 500/503
\* response is sent to the caller and issues no set.
C2_OnlySuccessStored ==
    /\ \A r \in Req : req[r].pc = "done" => req[r].res # NULL
    /\ \A r \in Req : hist[r].setKeys # << >> =>
          req[r].res.statusCode = 200 /\ Truthy(req[r].res.body, "success")
    /\ \A r \in Req : \A i \in DOMAIN req[r].pendingSet :
          Truthy(req[r].pendingSet[i].data, "success")
    /\ \A k \in DOMAIN store : Truthy(JSONparse(store[k].raw), "success")

\* a miss whose computation failed has been answered 503 through the
\* overridden res.json while another key is stored
C2_Witness ==
    \E r \in Req : /\ req[r].pc = "done" /\ req[r].jsonOverridden
                   /\ req[r].res.statusCode = 503
                   /\ hist[r].setKeys = << >>
                   /\ store # << >>

C4_UnavailableSkips ==
    \A r \in Req : (Arrived(r) /\ ~hist[r].availableAtStart) =>
        /\ hist[r].nextCalls = 1
        /\ hist[r].getCalls = 0
        /\ hist[r].getResult = [none |-> TRUE]
        /\ hist[r].setKeys = << >>
        /\ req[r].pendingSet = << >>
        /\ ~req[r].jsonOverridden

\* a request that met an unavailable store has been computed and answered
\* 200, after the store had served another request
C4_Witness ==
    \E r \in Req : /\ ~hist[r].availableAtStart
                   /\ req[r].pc = "done" /\ req[r].res.statusCode = 200
                   /\ servedKeys # {}

\* C5: a failing get (client error, or the store unavailable by the time the
\* call runs) returns null and never throws; a failing set returns false,
\* never throws and leaves the store as it was; every request whose get did
\* not hit goes on as a miss: res.json overridden, next() once, the
\* computation run once.
C5_FailuresAreMisses ==
    /\ \A r \in Req : hist[r].getResult # THROWN
    /\ \A r \in Req : req[r].pc = "get" =>
          \A clientThrows \in BOOLEAN :
              (~isAvailable \/ clientThrows) => RedisGet(req[r].cacheKey, clientThrows) = NULL
    /\ \A r \in Req : req[r].pendingSet # << >> =>
          \A clientThrows \in BOOLEAN :
              (~isAvailable \/ clientThrows) =>
                  LET call == Head(req[r].pendingSet)
                      done == RedisSet(call.key, call.data, call.ttl, clientThrows)
                  IN  done.returns = FALSE /\ done.store = store
    /\ \A r \in Req : \A i \in DOMAIN hist[r].setReturns :
          hist[r].setReturns[i].failed =>
              hist[r].setReturns[i].returns = FALSE /\ ~hist[r].setReturns[i].changed
    /\ \A r \in Req : (hist[r].getCalls = 1 /\ req[r].pc \in {"handler", "done"} /\ ~hist[r].hit) =>
          /\ hist[r].getResult = NULL
          /\ req[r].jsonOverridden
          /\ hist[r].nextCalls = 1
          /\ req[r].pc = "done" => hist[r].handlerCalls = 1

\* the store went away after both requests had passed the availability
\* check: one has had its set fail after its 200 response, the other's get
\* is still outstanding
C5_Witness ==
    \E r \in Req, q \in Req :
        /\ req[r].pc = "get" /\ ~isAvailable /\ initPc = "done"
        /\ req[q].res # NULL /\ req[q].res.statusCode = 200
        /\ \E i \in DOMAIN hist[q].setReturns : hist[q].setReturns[i].failed

\* C6: on a miss whose computation succeeds the response is out while the
\* write is still pending, it is the body the handler computed, and it stays
\* so whether the write succeeds, fails or never settles; a failed write
\* changes nothing in the store.
C6_ResponseIndependentOfWrite ==
    \A r \in Req :
        /\ req[r].pendingSet # << >> => req[r].res # NULL
        /\ hist[r].setKeys # << >> =>
              /\ req[r].res.statusCode = 200
              /\ req[r].res.body = FreshBody(r)
        /\ \A i \in DOMAIN hist[r].setReturns :
              ~hist[r].setReturns[i].returns => ~hist[r].setReturns[i].changed

\* a computed response whose write failed: the key is still absent
C6_Witness ==
    \E r \in Req : /\ req[r].res # NULL /\ req[r].res.statusCode = 200
                   /\ hist[r].setReturns # << >>
                   /\ ~hist[r].setReturns[1].returns
                   /\ req[r].cacheKey \notin DOMAIN store

\* C7: a request that missed and whose computation succeeded has issued
\* exactly one set, for its own key.
C7_ExactlyOneSet ==
    \A r \in Req :
        (req[r].pc = "done" /\ req[r].jsonOverridden /\ req[r].res.statusCode = 200) =>
            /\ hist[r].setKeys = << RequestCacheKey(RouteConfig(req[r].route), req[r]) >>
            /\ Len(req[r].pendingSet) + Len(hist[r].setReturns) = 1

\* a computed miss has written its key while another key is in the store
C7_Witness ==
    \E r \in Req : /\ req[r].pc = "done" /\ req[r].jsonOverridden
                   /\ Len(hist[r].setKeys) = 1
                   /\ hist[r].setReturns # << >> /\ hist[r].setReturns[1].returns
                   /\ \E k \in DOMAIN store : k # req[r].cacheKey

C9_CallerUid ==
    \A r \in Req :
        (req[r].res # NULL /\ req[r].res.statusCode = 200 /\ Truthy(req[r].res.body, "success"))
            => req[r].res.body.user.uid = req[r].user.uid

\* C10 as stated: the value stored at a key never changes once it is there.
C10_EntryImmutable ==
    [][\A k \in DOMAIN store : k \in DOMAIN store' => store'[k] = store[k]]_vars

\* C10 amended: the value stored at a key is replaced only by the set of a
\* request whose own read of the key came back empty (it read before the
\* first write landed, or its get failed), never by a request that was
\* answered from the cache; the replacement has no expiration either.
C10_OverwriteOnlyAfterOwnMiss ==
    [][\A k \in DOMAIN store :
          (k \in DOMAIN store' /\ store'[k] # store[k]) =>
              /\ store'[k].expireAt = TtlNoExpiration
              /\ \E r \in Req :
                    /\ req[r].pendingSet # << >>
                    /\ Head(req[r].pendingSet).key = k
                    /\ req'[r].pendingSet = Tail(req[r].pendingSet)
                    /\ hist[r].getResult = NULL
                    /\ ~hist[r].hit]_vars

\* the set of a second request has replaced the entry of the first
C10_Witness ==
    \E r \in Req : \E i \in DOMAIN hist[r].setReturns : hist[r].setReturns[i].overwrote

\* C11: there is no single-flight. A request whose read found nothing runs
\* the computation once and issues one set for its key even when another
\* request has stored the key in the meantime; every set the store applies
\* leaves exactly one entry at the key, the value of that set, whatever was
\* there, and touches no other key.
C11_ConcurrentMissesLastWriteWins ==
    [][\A r \in Req :
          /\ (hist[r].getResult = NULL /\ req[r].pc = "done" /\ req[r].res.statusCode = 200)
                => (hist[r].handlerCalls = 1 /\ hist[r].setKeys = << req[r].cacheKey >>)
          /\ (req[r].pendingSet # << >> /\ req'[r].pendingSet = Tail(req[r].pendingSet)
                /\ hist'[r].setReturns[Len(hist'[r].setReturns)].returns)
                => LET call == Head(req[r].pendingSet)
                   IN  /\ DOMAIN store' = (DOMAIN store) \cup {call.key}
                       /\ store'[call.key].raw = JSONstringify(call.data)
                       /\ \A k \in DOMAIN store : k # call.key => store'[k] = store[k]]_vars

\* two requests missed the same key: the second to write has replaced the
\* entry of the first after running the computation itself
C11_Witness ==
    \E r \in Req : /\ hist[r].getResult = NULL /\ hist[r].handlerCalls = 1
                   /\ hist[r].setReturns # << >>
                   /\ hist[r].setReturns[1].returns /\ hist[r].setReturns[1].overwrote
                   /\ Holds(req[r].cacheKey)

\* C19: every object the middleware hands to set is the response body
\* without cached and cacheTimestamp and with cacheMetadata of exactly
\* cachedAt (the time of capture), perpetual, cachePrefix and originalTtl;
\* every entry that enters the store or replaces one has that shape.
C19_StoredEntryShape ==
    [][/\ \A r \in Req : Len(req'[r].pendingSet) > Len(req[r].pendingSet) =>
             LET call == req'[r].pendingSet[Len(req'[r].pendingSet)]
                 cfg  == RouteConfig(req[r].route)
             IN  /\ ~Has(call.data, "cached") /\ ~Has(call.data, "cacheTimestamp")
                 /\ call.data.cacheMetadata =
                      [cachedAt |-> now, perpetual |-> cfg.perpetual,
                       cachePrefix |-> cfg.cachePrefix, originalTtl |-> cfg.ttl]
                 /\ Payload(call.data) = req'[r].res.body
       /\ \A k \in DOMAIN store' : (k \notin DOMAIN store \/ store'[k] # store[k]) =>
             LET entry == JSONparse(store'[k].raw)
             IN  /\ ~Has(entry, "cached") /\ ~Has(entry, "cacheTimestamp")
                 /\ DOMAIN entry.cacheMetadata =
                      {"cachedAt", "perpetual", "cachePrefix", "originalTtl"}
                 /\ entry.cacheMetadata.cachedAt <= now]_vars

\* an entry captured earlier is in the store with its four metadata fields
C19_Witness ==
    \E k \in DOMAIN store :
        /\ Has(JSONparse(store[k].raw), "cacheMetadata")
        /\ JSONparse(store[k].raw).cacheMetadata.cachedAt < now
        /\ JSONparse(store[k].raw).cacheMetadata.perpetual

\* both calls of generateCacheKey have returned, for the same prefix and
\* user id, each on a coordinate pair
BothKeysOfCoordinates ==
    /\ \A c \in KeyCalls : keys[c].key # << >> /\ Has(keys[c].data, "latitude")
    /\ keys[1].prefix = keys[2].prefix
    /\ keys[1].userId = keys[2].userId
\* the digits of a coordinate up to its second decimal
TwoDecimalDigits(coordinate) ==
    IF coordinate >= 0 THEN coordinate \div 1000 ELSE -((-coordinate) \div 1000)
\* the interval [n - 0.005, n + 0.005) of the 0.01 grid a coordinate lies in
NearestHundredth(coordinate) == (coordinate + 500) \div 1000

\* C17 as stated: two pairs that agree in every digit up to the second
\* decimal (they differ only beyond the rounding precision) have the same
\* key, and two pairs that differ in those digits have different keys.
C17_SameDigitsSameKey ==
    BothKeysOfCoordinates =>
        ((keys[1].key = keys[2].key) <=>
            /\ TwoDecimalDigits(keys[1].data.latitude) = TwoDecimalDigits(keys[2].data.latitude)
            /\ TwoDecimalDigits(keys[1].data.longitude) = TwoDecimalDigits(keys[2].data.longitude))

\* C17 amended: two pairs whose latitudes and whose longitudes have the same
\* nearest hundredth have the same key, and two pairs with different
\* nearest hundredths have different keys.
C17_SameRoundingSameKey ==
    BothKeysOfCoordinates =>
        ((keys[1].key = keys[2].key) <=>
            /\ NearestHundredth(keys[1].data.latitude) = NearestHundredth(keys[2].data.latitude)
            /\ NearestHundredth(keys[1].data.longitude) = NearestHundredth(keys[2].data.longitude))

\* 40.706 and 40.714 differ in the second decimal and share their key
C17_Witness ==
    /\ BothKeysOfCoordinates
    /\ keys[1].data.latitude = 4070600 /\ keys[2].data.latitude = 4071400
    /\ keys[1].data.longitude = keys[2].data.longitude
    /\ keys[1].key = keys[2].key

\* C18: a key of prefix 'reverse-geocode' differs from every key of prefix
\* 'geocode', and a key generated with a user id differs from every key
\* generated without one, whatever the data and the prefixes.
C18_NamespacesDisjoint ==
    \A c \in KeyCalls, d \in KeyCalls :
        (keys[c].key # << >> /\ keys[d].key # << >>) =>
            /\ (keys[c].prefix = "reverse-geocode" /\ keys[d].prefix = "geocode")
                  => keys[c].key # keys[d].key
            /\ (keys[c].userId # "" /\ keys[d].userId = "")
                  => keys[c].key # keys[d].key

\* a user-scoped key and a global key of the same prefix and the same data
C18_Witness ==
    /\ keys[1].key # << >> /\ keys[2].key # << >>
    /\ keys[1].prefix = keys[2].prefix /\ keys[1].data = keys[2].data
    /\ keys[1].userId # "" /\ keys[2].userId = ""

\* the string the store holds for a payload: a string as it is, anything
\* else as its JSON text
StoredText(data) == IF TypeOf(data) = "string" THEN data ELSE JSONstringify(data)

\* C13: after a set that returned true the key holds the value of that set,
\* with no expiration when ttl is 0 and with the deadline ttl seconds after
\* the call when ttl is positive, whatever value and expiration the key held
\* before.
C13_SetReplacesEntry ==
    (lastOp.op = "set" /\ lastOp.returns) =>
        /\ lastOp.key \in DOMAIN store
        /\ store[lastOp.key].raw = StoredText(lastOp.data)
        /\ lastOp.ttl = 0 => store[lastOp.key].expireAt = TtlNoExpiration
        /\ lastOp.ttl > 0 => store[lastOp.key].expireAt = lastOp.at + lastOp.ttl * 1000

\* a set with a deadline has replaced an entry that had no expiration and
\* another value
C13_Witness ==
    /\ lastOp.op = "set" /\ lastOp.returns /\ lastOp.ttl > 0
    /\ lastOp.before # NULL
    /\ lastOp.before.expireAt = TtlNoExpiration
    /\ lastOp.before.raw # StoredText(lastOp.data)

C15_TtlEntryPresentThenAbsent ==
    lastOp.op = "get" =>
        /\ (lastOp.afterSet # NULL /\ lastOp.afterSet.returns /\ lastOp.afterSet.ttl > 0
              /\ lastOp.afterSet.at = lastOp.at /\ ~lastOp.failed)
              => lastOp.returns = lastOp.afterSet.data
        /\ (lastOp.key \in DOMAIN store
              /\ store[lastOp.key].expireAt # TtlNoExpiration
              /\ lastOp.at >= store[lastOp.key].expireAt)
              => lastOp.returns = NULL

\* C16: a get that follows at once a set that returned true, the store
\* answering, returns the payload of that set, of whatever type.
C16_RoundTrip ==
    (lastOp.op = "get" /\ lastOp.afterSet # NULL /\ lastOp.afterSet.returns
        /\ lastOp.afterSet.at = lastOp.at /\ ~lastOp.failed)
        => lastOp.returns = lastOp.afterSet.data

\* C20: once client.connect() has failed it stays failed, isAvailable() is
\* false whatever 'connect' and 'error' events follow, and get, set, del,
\* ping, ttl and persist return null, false, false, false, -2 and false and
\* leave the store alone.
C20_FailedConnectDisables ==
    [][initPc = "failed" =>
          /\ initPc' = "failed"
          /\ ~isAvailable /\ ~isAvailable'
          /\ \A clientThrows \in BOOLEAN :
                /\ RedisGet(StoreKey, clientThrows) = NULL
                /\ \A data \in StorePayloads, ttl \in StoreTtls :
                      RedisSet(StoreKey, data, ttl, clientThrows) = [returns |-> FALSE, store |-> store]
                /\ RedisDel(StoreKey, clientThrows) = [returns |-> FALSE, store |-> store]
                /\ RedisPing(clientThrows) = FALSE
                /\ RedisTtl(StoreKey, clientThrows) = TtlNoKey
                /\ RedisPersist(StoreKey, clientThrows) = [returns |-> FALSE, store |-> store]
          /\ lastOp' # lastOp =>
                /\ store' = store
                /\ lastOp'.op \in {"get", "getCacheInfo"} => lastOp'.returns = NULL
                /\ lastOp'.op = "ttl" => lastOp'.seconds = TtlNoKey
                /\ lastOp'.op \in {"set", "del", "ping", "persist"} => lastOp'.returns = FALSE]_vars

\* after the failure a 'connect' event has set isEnabled again and a set
\* has still returned false
C20_Witness ==
    /\ initPc = "failed" /\ isEnabled
    /\ lastOp.op = "set" /\ ~lastOp.returns

\* C12: when runDiagnostic has returned, the store holds no entry at the
\* 'diagnostic:*' key it made.
C12_NoDiagnosticKeyLeft ==
    \A d \in Runs :
        (diag[d].pc = "returned" /\ diag[d].testKey # << >>) => ~Holds(diag[d].testKey)

\* C21: migrateToPerpetual(pattern) never reports success: every call
\* returns success = false with an error.
C21_PatternMigrationRejected ==
    lastOp.op = "migrateToPerpetual" =>
        /\ lastOp.returns.success = FALSE
        /\ Has(lastOp.returns, "message") \/ Has(lastOp.returns, "error")

\* the utilities that only read
ReadOnlyOps == {"getCacheInfo", "testCacheKey", "exists", "getWithMetadata", "ping", "isAvailable"}

\* C22: a call of getCacheInfo, testCacheKey, exists, getWithMetadata, ping
\* or isAvailable, and every step of warmupCache, leaves the value and the
\* expiration of every key as they were, and warmupCache makes no call of
\* the geocoding computation.
C22_ReadOnlyOpsLeaveStore ==
    [][/\ (lastOp' # lastOp /\ lastOp'.op \in ReadOnlyOps) => store' = store
       /\ warm' # warm => (store' = store /\ hist' = hist /\ warm'.geocodeCalls = 0)]_vars

\* warmupCache has counted a cached location and returned, a read-only
\* utility has been called after it, and the entry is where it was
C22_Witness ==
    /\ warm.pc = "returned" /\ warm.availableAtStart
    /\ Has(warm.results, "alreadyCached") /\ warm.results.alreadyCached > 0
    /\ warm.results.needsGeocoding > 0
    /\ lastOp.op = "testCacheKey" /\ lastOp.returns.keyExists
    /\ Holds(StoreKey)

\* C23: a run of warmupCache over a non-empty list that started with the
\* store available returns counts that account for every item:
\* alreadyCached + needsGeocoding + errors.length = totalLocations, the
\* length of the list.
C23_WarmupAccountsForEveryItem ==
    (warm.pc = "returned" /\ warm.availableAtStart /\ Len(warm.locations) > 0) =>
        /\ Has(warm.results, "errors")
        /\ warm.results.totalLocations = Len(warm.locations)
        /\ warm.results.alreadyCached + warm.results.needsGeocoding
              + Len(warm.results.errors) = warm.results.totalLocations

\* C24: for a key whose stored value does not decode, get returns null and
\* a testCacheKey that reaches the store returns keyExists true, dataValid
\* false and an error that is not null.
C24_UndecodableEntrySurfaced ==
    /\ \A k \in DOMAIN store : (Holds(k) /\ JSONparse(store[k].raw) = THROWN) =>
          \A clientThrows \in BOOLEAN : RedisGet(k, clientThrows) = NULL
    /\ (lastOp.op = "testCacheKey" /\ ~lastOp.failed /\ lastOp.entry # NULL
          /\ JSONparse(lastOp.entry.raw) = THROWN) =>
          /\ lastOp.returns.keyExists
          /\ ~lastOp.returns.dataValid
          /\ lastOp.returns.error # NULL

\* the step is a call of del or of fixCorruptedKey
DeleteCalled == lastOp' # lastOp /\ lastOp'.op \in {"del", "fixCorruptedKey"}
\* what the call returned
Deleted(call) == IF call.op = "del" THEN call.returns ELSE call.deleted

\* C25 as stated: del and fixCorruptedKey return true exactly when the key
\* held an entry before the call.
C25_DeleteReportsExistence ==
    [][DeleteCalled => (Deleted(lastOp') <=> Holds(lastOp'.key))]_vars

\* C25 amended: a del or fixCorruptedKey that the store answers returns true
\* exactly when the key held an entry, of whatever value, and leaves the key
\* absent; one that fails (store unavailable, client error) returns false
\* and leaves the store as it was; a key that is absent stays absent until
\* a set of it.
C25_DeleteReportsDeletion ==
    [][/\ DeleteCalled =>
             /\ ~lastOp'.failed =>
                   /\ Deleted(lastOp') <=> Holds(lastOp'.key)
                   /\ lastOp'.key \notin DOMAIN store'
             /\ lastOp'.failed => (~Deleted(lastOp') /\ store' = store)
       /\ \A k \in DOMAIN store' : k \notin DOMAIN store =>
             (lastOp'.op = "set" /\ lastOp'.key = k /\ lastOp'.returns)]_vars

\* fixCorruptedKey has removed an entry that did not decode
C25_Witness ==
    /\ lastOp.op = "fixCorruptedKey" /\ lastOp.deleted
    /\ lastOp.before # NULL /\ JSONparse(lastOp.before.raw) = THROWN
    /\ lastOp.key \notin DOMAIN store

\* the step is a call of persist
PersistCalled == lastOp' # lastOp /\ lastOp'.op = "persist"
\* the key holds an entry with a deadline that has not passed
HoldsWithTtl(key) == Holds(key) /\ store[key].expireAt # TtlNoExpiration

\* C26 as stated: persist on an entry with a TTL returns true and leaves the
\* value with no expiration; on an absent key or an entry without
\* expiration it returns false and changes nothing.
C26_PersistConverts ==
    [][PersistCalled =>
          IF HoldsWithTtl(lastOp'.key)
          THEN /\ lastOp'.returns
               /\ store'[lastOp'.key] = [store[lastOp'.key] EXCEPT !.expireAt = TtlNoExpiration]
          ELSE ~lastOp'.returns /\ store' = store]_vars

\* C26 amended: a persist that the store answers returns true on an entry
\* with a TTL, whose value stays and whose ttl is -1 from then on, and
\* returns false and changes nothing on an absent key or an entry without
\* expiration; a persist that fails returns false and changes nothing, the
\* entry keeps its TTL.
C26_PersistConvertsWhenAnswered ==
    [][PersistCalled =>
          IF HoldsWithTtl(lastOp'.key) /\ ~lastOp'.failed
          THEN /\ lastOp'.returns
               /\ store'[lastOp'.key] = [store[lastOp'.key] EXCEPT !.expireAt = TtlNoExpiration]
               /\ \A k \in DOMAIN store : k # lastOp'.key => store'[k] = store[k]
          ELSE ~lastOp'.returns /\ store' = store]_vars

\* persist has returned true some time after the entry was set with a TTL,
\* and the entry has no expiration
C26_Witness ==
    /\ lastOp.op = "persist" /\ lastOp.returns /\ lastOp.at > 0
    /\ Holds(lastOp.key) /\ ClientTtl(lastOp.key) = TtlNoExpiration

\* C27: the data.coordinates of every 200 response of POST /reverse are the
\* latitude and longitude of the request body.
C27_CoordinatesEchoed ==
    \A r \in Req :
        (req[r].route = "reverse" /\ req[r].res # NULL /\ req[r].res.statusCode = 200) =>
            req[r].res.body.data.coordinates =
                [latitude  |-> hist[r].body.latitude.number,
                 longitude |-> hist[r].body.longitude.number]

\* the request made no read of the store, no write to it and no call of the
\* provider, and the cache middleware did not run for it
NoStoreOrProviderCall(r) ==
    /\ hist[r].getCalls = 0 /\ hist[r].getResult = [none |-> TRUE]
    /\ hist[r].nextCalls = 0 /\ hist[r].handlerCalls = 0
    /\ hist[r].setKeys = << >> /\ req[r].pendingSet = << >>
    /\ req[r].cacheKey = << >> /\ ~req[r].jsonOverridden
\* the code of the 400 response for a body of the route
ValidationCode(route, body) ==
    IF route = "reverse"
    THEN CASE body = [platform |-> [string |-> "ios"]] -> "MISSING_COORDINATES"
           [] body \in RefusedCoordinates /\ Has(body, "latitude")
                /\ Has(body.latitude, "string") -> "INVALID_COORDINATES_FORMAT"
           [] body \in RefusedCoordinates /\ Has(body, "latitude")
                /\ Has(body.latitude, "number") /\ body.latitude.number > 9000000
                -> "INVALID_LATITUDE_RANGE"
           [] body \in RefusedCoordinates /\ Has(body, "longitude")
                /\ Has(body.longitude, "number") /\ body.longitude.number > 18000000
                -> "INVALID_LONGITUDE_RANGE"
           [] OTHER -> "none"
    ELSE CASE body = [platform |-> [string |-> "ios"]] -> "MISSING_ADDRESS"
           [] body = [address |-> [number |-> 12345]] -> "INVALID_ADDRESS_FORMAT"
           [] body = [address |-> [string |-> "   "]] -> "EMPTY_ADDRESS"
           [] OTHER -> "none"

\* C28: a request without an Authorization header is answered 401
\* MISSING_AUTH_HEADER whatever its body, one with a refused token 401, one
\* with a verified token and a body the validator refuses 400 with the code
\* of the failure; none of them reads the store, writes to it or calls the
\* provider.  A request with a verified token and a valid body goes on to
\* the cache middleware.
C28_RefusedBeforeCache ==
    \A r \in Req : hist[r].headers # NULL =>
        IF ~Has(hist[r].headers, "authorization")
        THEN /\ req[r].pc = "done" /\ req[r].res.statusCode = 401
             /\ req[r].res.body.code = "MISSING_AUTH_HEADER"
             /\ NoStoreOrProviderCall(r)
        ELSE IF hist[r].headers \notin ValidHeaders
        THEN /\ req[r].pc = "done" /\ req[r].res.statusCode = 401
             /\ NoStoreOrProviderCall(r)
        ELSE IF ValidationCode(req[r].route, hist[r].body) # "none"
        THEN /\ req[r].pc = "done" /\ req[r].res.statusCode = 400
             /\ req[r].res.body.code = ValidationCode(req[r].route, hist[r].body)
             /\ NoStoreOrProviderCall(r)
        ELSE /\ hist[r].getCalls + hist[r].nextCalls >= 1
             /\ req[r].res # NULL => req[r].res.statusCode \notin {400, 401}

\* a body with a latitude that is not a number has been answered 400 while
\* the store is available and holds an entry
C28_Witness ==
    \E r \in Req : /\ req[r].res # NULL /\ req[r].res.statusCode = 400
                   /\ req[r].res.body.code = "INVALID_COORDINATES_FORMAT"
                   /\ isAvailable /\ store # << >>

\* the run has made its key and has not returned
DiagRunning(d) == diag[d].pc \in {"set", "get", "del"}

\* C29: two runs of runDiagnostic that are in progress at the same time
\* have different 'diagnostic:*' keys.
C29_DiagnosticKeysDistinct ==
    \A d \in Runs, e \in Runs :
        (d # e /\ DiagRunning(d) /\ DiagRunning(e)) => diag[d].testKey # diag[e].testKey

\* the object a live entry decodes to, and whether it has no expiration
StoredObject(key) == JSONparse(store[key].raw)
HasNoExpiration(key) == store[key].expireAt = TtlNoExpiration

\* the request was answered from the entry getCacheInfo last reported on
HitOnReportedEntry(r) ==
    /\ req[r].res # NULL /\ hist[r].hit
    /\ lastOp.op = "getCacheInfo" /\ lastOp.returns # NULL /\ ~lastOp.ttlFailed
    /\ lastOp.key = req[r].cacheKey
    /\ lastOp.returns.cacheMetadata =
          Delete(req[r].res.body.cacheMetadata, {"isPerpetual", "cacheAge", "servedAt"})

\* C30: whatever ttl and perpetual arguments the middleware was mounted
\* with, an entry it stored has no expiration exactly when its
\* cacheMetadata.perpetual is true, and the isPerpetual served on a hit
\* equals the isPerpetual getCacheInfo reports for the same entry.
C30_PerpetualFlagAgreesWithStorage ==
    /\ \A key \in DOMAIN store :
          (Holds(key) /\ Has(StoredObject(key), "cacheMetadata"))
             => (HasNoExpiration(key) <=> Truthy(StoredObject(key).cacheMetadata, "perpetual"))
    /\ \A r \in Req :
          HitOnReportedEntry(r)
             => req[r].res.body.cacheMetadata.isPerpetual = lastOp.returns.isPerpetual

\* the pair of a location whose lat and lng are numbers inside the valid
\* ranges (every sample pair is), and the item warmupCache is waiting on
IsPair(location) ==
    /\ Has(location, "lat") /\ Has(location, "lng")
    /\ TypeOf(location.lat) = "number" /\ TypeOf(location.lng) = "number"
PairOf(location) == [latitude |-> location.lat.number, longitude |-> location.lng.number]
WarmItem == warm.locations[warm.i]

\* C31: while warmupCache waits for the read of a coordinate pair, the key
\* it reads is the key the middleware derives for a reverse request with
\* the same raw pair.
C31_WarmupKeyIsRequestKey ==
    (warm.pc = "get" /\ IsPair(WarmItem) /\ ~Has(WarmItem, "address"))
        => warm.cacheKey = ReverseRequestKey(PairOf(WarmItem))

\* C32: a location with numeric lat and lng is never pushed on errors, and
\* is never read under a key of the geocode namespace.
C32_NumericPairIsReverseLookup ==
    /\ (warm.pc \in {"get", "returned"} /\ Has(warm.results, "errors"))
          => \A e \in 1..Len(warm.results.errors) : ~IsPair(warm.results.errors[e].invalid)
    /\ (warm.pc = "get" /\ IsPair(WarmItem))
          => warm.cacheKey = generateCacheKey("reverse-geocode", PairOf(WarmItem), "")

\* the 2-decimal pair a reverse-geocode key is the hash of
KeyPair(key) == key[Len(key)].md5
IsReverseKey(key) == key[1].s = "reverse-geocode"

MiddlewareRan(r) == req[r].mount # NULL
MiddlewareThrough(r) == MiddlewareRan(r) /\ req[r].pc \in {"handler", "done"}

AllChecksPass(results) ==
    /\ results.redisAvailable /\ results.pingSuccess /\ results.setSuccess
    /\ results.getSuccess /\ results.dataIntegrity

\* C35: in the results of every run of runDiagnostic, dataIntegrity implies
\* getSuccess, getSuccess implies setSuccess and setSuccess implies
\* redisAvailable; when the run has returned, errors is empty exactly when
\* the five checks all passed.
C35_DiagnosticResultConsistent ==
    \A d \in Runs :
        diag[d].pc # "idle" =>
            LET results == diag[d].results IN
            /\ results.dataIntegrity => results.getSuccess
            /\ results.getSuccess => results.setSuccess
            /\ results.setSuccess => results.redisAvailable
            /\ diag[d].pc = "returned"
                  => (results.errors = << >> <=> AllChecksPass(results))

\* one run has returned clean while another returned after its read came
\* back empty though its write had succeeded
C35_Witness ==
    \E d \in Runs, e \in Runs :
        /\ diag[d].pc = "returned" /\ AllChecksPass(diag[d].results)
        /\ diag[e].pc = "returned" /\ diag[e].results.setSuccess
        /\ ~diag[e].results.getSuccess /\ Len(diag[e].results.errors) = 1

\* getCacheInfo has returned an object and its ttl call was answered
InfoReturned ==
    lastOp.op = "getCacheInfo" /\ lastOp.returns # NULL /\ ~lastOp.ttlFailed

\* C36: an object returned by getCacheInfo, whatever happened to the key
\* while it ran, has exists true and exactly one of isPerpetual and
\* hasExpiration true.
C36_InfoSnapshotConsistent ==
    InfoReturned =>
        /\ lastOp.returns.exists
        /\ lastOp.returns.isPerpetual # lastOp.returns.hasExpiration

\* the script has ended after testing a key that held an entry which does
\* not decode, and its client.get call was answered
ScriptEndedOnMalformed ==
    /\ lastOp.op = "script" /\ lastOp.pc = "ended"
    /\ ~lastOp.failed /\ lastOp.entry # NULL
    /\ JSONparse(lastOp.entry.raw) = THROWN

\* C37: when the script ends after testing a key whose entry does not
\* decode, it has called fixCorruptedKey and the key is absent.
C37_ScriptRepairsMalformedEntry ==
    ScriptEndedOnMalformed => lastOp.fixCalled /\ ~Holds(lastOp.key)
====
